---- MODULE Spec2Model ----
(***************************************************************************)
(* The request / authentication / retry pipeline of the Dokan Go SDK:      *)
(* Client.MakeRequest -> utils.WithRetry -> utils.MakeRequest ->           *)
(* authenticatedClient.Do -> Authenticator.Authenticate -> HTTP transport. *)
(*                                                                         *)
(* Every logical call c owns the locals of WithRetry and of the closure of *)
(* Client.MakeRequest; the client (base URL, retry policy, authenticator)  *)
(* is shared by all calls.  Time is counted in minutes for token expiry    *)
(* and in seconds for backoff delays.                                      *)
(***************************************************************************)
EXTENDS Integers, Sequences, FiniteSets, TLC

VARIABLES
    calls,         \* the logical calls (goroutines) running on the client
    baseURL,       \* Client.baseURL
    config,        \* the Config NewClient is given
    built,         \* what NewClient returned: nothing yet, a client, or an error
    opts,          \* per call: the RequestOptions of the call
    request,       \* per call: query and headers (other than Authorization) of the
                   \* request being built
    opErr,         \* per call: the error the resource operation returned
    api,           \* per call: the API entered, Client.MakeRequest or JWTAuth.Refresh
    retryConfig,   \* Client.retryConfig
    auth,          \* Client.auth: the shared Authenticator and its fields
    oldAuth,       \* the Authenticator Client.SetAuth replaced, and its fields
    holds,         \* per call: the Authenticator the attempt captured in its
                   \* authenticatedClient, the client's ("client") or the
                   \* replaced one ("old")
    app,           \* the application next to the calls: its position in
                   \* JWTAuth.SetToken, the expiry it is about to store and
                   \* the setter calls it still makes
    now,           \* time.Now(), in minutes
    transport,     \* per call: the behaviour of the HTTP transport it talks to
    ctxDone,       \* per call: the caller's context is cancelled / past its deadline
    ctxAtStart,    \* per call: value of ctxDone when Client.MakeRequest was entered
    cancelledAt,   \* per call: where the call was when its context was cancelled
    pc,            \* per call: position in WithRetry / MakeRequest / Authenticate
    attempt,       \* per call: loop variable of WithRetry
    lastErr,       \* per call: WithRetry's lastErr (= Client.MakeRequest's lastError)
    lastResponse,  \* per call: Client.MakeRequest's lastResponse
    result,        \* per call: the error Client.MakeRequest returned
    pending,       \* per call: locals newToken, expiresAt of JWTAuth.Refresh
    req,           \* per call: req.Header["Authorization"] of the request being built
    attachValid,   \* per call: IsValid() of the stored token when the header was set
    errs,          \* per call: history of the values returned by fn(), one per attempt
    delays,        \* per call: history of the backoff delays that elapsed
    exchanges,     \* per call: invocations of the underlying HTTP client's Do
    sentAuth,      \* per call: the Authorization headers handed to the transport, each
                   \* with the IsValid() of the stored token when it was set
    authCalls,     \* per call: invocations of Authenticator.Authenticate
    refreshCalls,  \* per call: invocations of the refresh function
    issued         \* number of tokens the refresh function has issued so far

vars == <<calls, baseURL, config, built, opts, request, opErr, api, retryConfig, auth,
          oldAuth, holds, app, now, transport, ctxDone, ctxAtStart, cancelledAt, pc,
          attempt, lastErr, lastResponse, result, pending, req, attachValid,
          errs, delays, exchanges, sentAuth, authCalls, refreshCalls, issued>>

---------------------------------------------------------------------------
(* Bounds of the model *)

\* RetryCount values a client is built with: -1 .. MaxRetryCount
MaxRetryCount == 5
\* a scripted transport answers its first k <= PreLen exchanges differently
PreLen == 2

(* Program constants *)

BaseDelay == 1          \* seconds
MaxDelay == 30          \* seconds
Multiplier == 2
SafetyMargin == 5       \* minutes
DefaultRetryAfter == 60
ZeroTime == 0           \* time.Time{}: no expiry set

---------------------------------------------------------------------------
(* package errors *)

NoError == [kind |-> "nil"]

NewDokanError(code, message, statusCode) ==
    [kind |-> "DokanError", Code |-> code, Message |-> message, StatusCode |-> statusCode]

NewNetworkError(err) == [kind |-> "NetworkError", Err |-> err]

NewAuthenticationError(message) == [kind |-> "AuthenticationError", Message |-> message]

NewNotFoundError(resource, id) == [kind |-> "NotFoundError", Resource |-> resource, ID |-> id]

NewRateLimitError(retryAfter) == [kind |-> "RateLimitError", RetryAfter |-> retryAfter]

\* fmt.Errorf(...): an error of no package type
Errorf(text) == [kind |-> "error", text |-> text]

\* ctx.Err() of a cancelled context
CtxErr == [kind |-> "context", text |-> "context canceled"]

IsDokanError(err) == err.kind = "DokanError"

\* "HTTP %d error"
HTTPErrorMessage(statusCode) == <<"HTTP", statusCode, "error">>

\* the table without its entry for 404
HandleHTTPErrorNo404(statusCode) ==
    CASE statusCode = 401 -> NewAuthenticationError("unauthorized access")
      [] statusCode = 403 -> NewAuthenticationError("forbidden access")
      [] statusCode = 429 -> NewRateLimitError(DefaultRetryAfter)
      [] statusCode = 400 -> NewDokanError("bad_request", "bad request", statusCode)
      [] statusCode = 500 -> NewDokanError("internal_error", "internal server error", statusCode)
      [] OTHER -> IF statusCode >= 400
                  THEN NewDokanError("http_error", HTTPErrorMessage(statusCode), statusCode)
                  ELSE NoError

HandleHTTPError(statusCode) ==
    CASE statusCode = 401 -> NewAuthenticationError("unauthorized access")
      [] statusCode = 403 -> NewAuthenticationError("forbidden access")
      [] statusCode = 404 -> NewNotFoundError("resource", "unknown")
      [] statusCode = 429 -> NewRateLimitError(DefaultRetryAfter)
      [] statusCode = 400 -> NewDokanError("bad_request", "bad request", statusCode)
      [] statusCode = 500 -> NewDokanError("internal_error", "internal server error", statusCode)
      [] OTHER -> IF statusCode >= 400
                  THEN NewDokanError("http_error", HTTPErrorMessage(statusCode), statusCode)
                  ELSE NoError

---------------------------------------------------------------------------
(* HTTP responses and the transport *)

\* A response body: its form (a JSON object, a JSON array, text that is not
\* JSON, no bytes at all, or bytes whose reading fails before the end),
\* whether json.Unmarshal into a struct accepts it, and the "code" /
\* "message" members of the object it decodes to ("" when absent).
BodyDokan ==
    [form |-> "object", json |-> TRUE, code |-> "rest_error", message |-> "server message"]
BodyEmptyObject == [form |-> "object", json |-> TRUE, code |-> "", message |-> ""]
BodyText == [form |-> "text", json |-> FALSE, code |-> "", message |-> ""]
BodyMessageOnly ==
    [form |-> "object", json |-> TRUE, code |-> "", message |-> "server message"]
BodyArray == [form |-> "array", json |-> FALSE, code |-> "", message |-> ""]
BodyEmpty == [form |-> "empty", json |-> FALSE, code |-> "", message |-> ""]
BodyUnreadable == [form |-> "unreadable", json |-> FALSE, code |-> "", message |-> ""]

NoResponse == [nil |-> TRUE]
Response(statusCode, body) == [nil |-> FALSE, StatusCode |-> statusCode, Body |-> body]

\* What the underlying HTTP client's Do returns: an error, or a response.
TransportFailure == [failed |-> TRUE]
Answer(statusCode, body) == [failed |-> FALSE, StatusCode |-> statusCode, Body |-> body]

\* the classification with the fallback table consulted before the body
ClassifyResponseTableFirst(statusCode, body) ==
    IF statusCode >= 400
    THEN IF statusCode \in {401, 403, 404, 429}
         THEN HandleHTTPError(statusCode)
         ELSE IF body.json /\ body.code # ""
              THEN NewDokanError(body.code, body.message, statusCode)
              ELSE HandleHTTPError(statusCode)
    ELSE NoError

\* The tail of utils.MakeRequest: the error returned with a response of the
\* given status and body.
ClassifyResponse(statusCode, body) ==
    IF statusCode >= 400
    THEN IF body.json /\ body.code # ""
         THEN NewDokanError(body.code, body.message, statusCode)
         ELSE HandleHTTPError(statusCode)
    ELSE NoError

---------------------------------------------------------------------------
(* package auth *)

NoToken == 0      \* the empty string ""; the tokens are 1, 2, 3, ...

\* a nil Authenticator
NilAuthenticator == [type |-> "nil"]

NewBasicAuth(username, password) ==
    [type |-> "basic", username |-> username, password |-> password]

NewJWTAuthWithRefresh(token, expiresAt, refreshToken, hasRefreshFunc) ==
    [type |-> "jwt", token |-> token, expiresAt |-> expiresAt,
     refreshToken |-> refreshToken, refreshFunc |-> hasRefreshFunc]

NewJWTAuth(token, expiresAt) == NewJWTAuthWithRefresh(token, expiresAt, "", FALSE)

\* the comparison with "not after" for "before"
BeforeExpiryInclusive(t, expiresAt) == t + SafetyMargin <= expiresAt

\* time.Now().Add(5 * time.Minute).Before(expiresAt)
BeforeExpiry(t, expiresAt) == t + SafetyMargin < expiresAt

JWTIsValid(a, t) ==
    IF a.token = NoToken THEN FALSE
    ELSE IF a.expiresAt = ZeroTime THEN TRUE
    ELSE BeforeExpiry(t, a.expiresAt)

BasicIsValid(a) == a.username # "" /\ a.password # ""

IsValid(a, t) == IF a.type = "basic" THEN BasicIsValid(a) ELSE JWTIsValid(a, t)

\* the bytes of the strings credentials are made of
Bytes(str) ==
    CASE str = "" -> <<>>
      [] str = "a" -> <<97>>
      [] str = "ab" -> <<97, 98>>
      [] str = "user" -> <<117, 115, 101, 114>>
      [] str = "pass" -> <<112, 97, 115, 115>>

Base64Alphabet ==
    <<"A", "B", "C", "D", "E", "F", "G", "H", "I", "J", "K", "L", "M", "N", "O", "P",
      "Q", "R", "S", "T", "U", "V", "W", "X", "Y", "Z", "a", "b", "c", "d", "e", "f",
      "g", "h", "i", "j", "k", "l", "m", "n", "o", "p", "q", "r", "s", "t", "u", "v",
      "w", "x", "y", "z", "0", "1", "2", "3", "4", "5", "6", "7", "8", "9", "+", "/">>

\* base64.StdEncoding.EncodeToString: three bytes give four characters, a
\* last group of one or two bytes is padded with "="
RECURSIVE Base64(_)
Base64(bytes) ==
    IF Len(bytes) = 0 THEN <<>>
    ELSE LET b1 == bytes[1]
             b2 == IF Len(bytes) >= 2 THEN bytes[2] ELSE 0
             b3 == IF Len(bytes) >= 3 THEN bytes[3] ELSE 0
             c1 == Base64Alphabet[(b1 \div 4) + 1]
             c2 == Base64Alphabet[((b1 % 4) * 16 + (b2 \div 16)) + 1]
             c3 == Base64Alphabet[((b2 % 16) * 4 + (b3 \div 64)) + 1]
             c4 == Base64Alphabet[(b3 % 64) + 1]
         IN  IF Len(bytes) = 1 THEN <<c1, c2, "=", "=">>
             ELSE IF Len(bytes) = 2 THEN <<c1, c2, c3, "=">>
             ELSE <<c1, c2, c3, c4>> \o Base64(SubSeq(bytes, 4, Len(bytes)))

NoHeader == [scheme |-> "none"]
\* "Basic " + base64(username + ":" + password)
BasicHeader(a) ==
    [scheme |-> "Basic",
     credentials |-> Base64(Bytes(a.username) \o <<58>> \o Bytes(a.password))]
\* an Authorization header the caller put into RequestOptions.Headers
CallerHeader(value) == [scheme |-> "caller", value |-> value]
BearerHeader(token) == [scheme |-> "Bearer", token |-> token]

---------------------------------------------------------------------------
(* The environment: transports, refresh functions, clock *)

StartTime == 10         \* the minute at which the calls run
TokenLifetime == 60     \* minutes of validity of a token the refresh function issues

ErrorStatuses == {400, 401, 403, 404, 429, 500}
ErrorBodies == {BodyDokan, BodyEmptyObject, BodyText}

Outcomes ==
    {TransportFailure, Answer(200, BodyEmptyObject), Answer(200, BodyUnreadable)}
        \cup {Answer(s, b) : s \in ErrorStatuses, b \in ErrorBodies}

\* A mock transport: it answers `pre` to the first k exchanges of a call and
\* `post` to every later one.
Always(o) == [pre |-> o, k |-> 0, post |-> o]
Scripts ==
    {Always(o) : o \in Outcomes}
        \cup {s \in [pre : Outcomes, k : 1..PreLen, post : Outcomes] : s.pre # s.post}

\* the answer of transport t to its n-th exchange (n = 1, 2, ...)
ScriptAnswer(t, n) == IF n <= t.k THEN t.pre ELSE t.post

\* What the refresh function may return: an error, a token that is valid for
\* TokenLifetime minutes, or a token that is already expired.
RefreshOutcomes == {"error", "valid", "expired"}
RefreshExpiry(outcome, t) == IF outcome = "valid" THEN t + TokenLifetime ELSE t

---------------------------------------------------------------------------
(* utils.StructToURLValues: the query object and its flattening             *)
(*                                                                         *)
(* A Go string that is converted or joined is a sequence of one-character  *)
(* strings.  A value is a record with its reflect.Kind; a struct field has *)
(* its Go name, whether it is exported, the comma-separated parts of its   *)
(* `url` tag (<<"">> for no tag) and its value.                            *)

Str(chars) == [kind |-> "string", chars |-> chars]
Bool(b) == [kind |-> "bool", b |-> b]
IntVal(i) == [kind |-> "int", i |-> i]
\* a slice: the kind of its element type and its elements
Slice(elem, items) == [kind |-> "slice", elem |-> elem, items |-> items]
Map(len) == [kind |-> "map", len |-> len]
NilPtr == [kind |-> "ptr", isNil |-> TRUE]
Ptr(target) == [kind |-> "ptr", isNil |-> FALSE, target |-> target]
Struct(fields) == [kind |-> "struct", fields |-> fields]
NilQuery == [kind |-> "nil"]

Field(name, exported, tag, value) ==
    [Name |-> name, exported |-> exported, tag |-> tag, value |-> value]

DecimalDigits == <<"0", "1", "2", "3", "4", "5", "6", "7", "8", "9">>

\* the decimal digits of n >= 0
RECURSIVE Digits(_)
Digits(n) ==
    IF n < 10 THEN <<DecimalDigits[n + 1]>>
    ELSE Digits(n \div 10) \o <<DecimalDigits[(n % 10) + 1]>>

\* strconv.FormatInt(i, 10)
FormatInt(i) == IF i < 0 THEN <<"-">> \o Digits(0 - i) ELSE Digits(i)

\* strconv.FormatBool(b)
FormatBool(b) == IF b THEN <<"t", "r", "u", "e">> ELSE <<"f", "a", "l", "s", "e">>

\* strings.Join(strs, ",")
RECURSIVE Join(_)
Join(strs) ==
    IF Len(strs) = 0 THEN <<>>
    ELSE IF Len(strs) = 1 THEN strs[1]
    ELSE strs[1] \o <<",">> \o Join(Tail(strs))

\* isEmptyValue taking only the empty string for empty
isEmptyValueStringsOnly(v) == v.kind = "string" /\ Len(v.chars) = 0

\* isEmptyValue(v)
isEmptyValue(v) ==
    CASE v.kind = "string" -> Len(v.chars) = 0
      [] v.kind = "slice" -> Len(v.items) = 0
      [] v.kind = "map" -> v.len = 0
      [] v.kind = "bool" -> ~v.b
      [] v.kind = "int" -> v.i = 0
      [] v.kind = "ptr" -> v.isNil
      [] OTHER -> FALSE

Converted(chars) == [err |-> NoError, s |-> chars]
Unsupported(text) == [err |-> Errorf(text), s |-> <<>>]

RECURSIVE fieldToString(_)
fieldToString(v) ==
    CASE v.kind = "string" -> Converted(v.chars)
      [] v.kind = "bool" -> Converted(FormatBool(v.b))
      [] v.kind = "int" -> Converted(FormatInt(v.i))
      [] v.kind = "slice" ->
            IF v.elem = "string" THEN Converted(Join(v.items))
            ELSE IF v.elem = "int"
                 THEN Converted(Join([n \in 1..Len(v.items) |-> FormatInt(v.items[n])]))
                 ELSE Unsupported("unsupported slice type")
      [] v.kind = "ptr" -> IF v.isNil THEN Converted(<<>>) ELSE fieldToString(v.target)
      [] OTHER -> Unsupported("unsupported type")

\* whether the `url` tag has the option omitempty
OmitEmpty(tag) == \E n \in 2..Len(tag) : tag[n] = "omitempty"

\* the loop of StructToURLValues over the fields from index n on, given the
\* values added so far: the error of the first field that cannot be
\* converted, or the values in the order of the fields
RECURSIVE FlattenFrom(_, _, _)
FlattenFrom(fields, n, values) ==
    IF n > Len(fields) THEN [err |-> NoError, values |-> values]
    ELSE LET f == fields[n] IN
         IF ~f.exported \/ f.tag = <<"">> \/ f.tag = <<"-">>
         THEN FlattenFrom(fields, n + 1, values)
         ELSE IF OmitEmpty(f.tag) /\ isEmptyValue(f.value)
         THEN FlattenFrom(fields, n + 1, values)
         ELSE LET conv == fieldToString(f.value) IN
              IF conv.err # NoError
              THEN [err |-> Errorf("failed to convert field"), values |-> <<>>]
              ELSE IF conv.s # <<>>
              THEN FlattenFrom(fields, n + 1,
                               Append(values, [name |-> f.tag[1], value |-> conv.s]))
              ELSE FlattenFrom(fields, n + 1, values)

StructToURLValues(v) ==
    IF v.kind = "nil" THEN [err |-> NoError, values |-> <<>>]
    ELSE LET rv == IF v.kind = "ptr" THEN (IF v.isNil THEN NilQuery ELSE v.target) ELSE v IN
         IF rv.kind # "struct"
         THEN [err |-> Errorf("expected struct"), values |-> <<>>]
         ELSE FlattenFrom(rv.fields, 1, <<>>)

\* the characters of the names of the parameters
Chars(str) ==
    CASE str = "a" -> <<"a">>
      [] str = "b" -> <<"b">>
      [] str = "c" -> <<"c">>
      [] str = "category" -> <<"c", "a", "t", "e", "g", "o", "r", "y">>
      [] str = "featured" -> <<"f", "e", "a", "t", "u", "r", "e", "d">>
      [] str = "filter" -> <<"f", "i", "l", "t", "e", "r">>
      [] str = "ids" -> <<"i", "d", "s">>
      [] str = "max_price" -> <<"m", "a", "x", "_", "p", "r", "i", "c", "e">>
      [] str = "meta" -> <<"m", "e", "t", "a">>
      [] str = "min_price" -> <<"m", "i", "n", "_", "p", "r", "i", "c", "e">>
      [] str = "name" -> <<"n", "a", "m", "e">>
      [] str = "order" -> <<"o", "r", "d", "e", "r">>
      [] str = "orderby" -> <<"o", "r", "d", "e", "r", "b", "y">>
      [] str = "page" -> <<"p", "a", "g", "e">>
      [] str = "per_page" -> <<"p", "e", "r", "_", "p", "a", "g", "e">>
      [] str = "search" -> <<"s", "e", "a", "r", "c", "h">>
      [] str = "sku" -> <<"s", "k", "u">>
      [] str = "sort by" -> <<"s", "o", "r", "t", " ", "b", "y">>
      [] str = "status" -> <<"s", "t", "a", "t", "u", "s">>
      [] str = "stock_status" -> <<"s", "t", "o", "c", "k", "_", "s", "t", "a", "t", "u", "s">>
      [] str = "tag" -> <<"t", "a", "g">>
      [] str = "type" -> <<"t", "y", "p", "e">>

\* the printable characters in the order of their bytes, from the space
\* (byte 32) to the tilde (byte 126); byte 96 is written by its name
Printable ==
    <<" ", "!", "\"", "#", "$", "%", "&", "'", "(", ")", "*", "+", ",", "-", ".", "/",
      "0", "1", "2", "3", "4", "5", "6", "7", "8", "9", ":", ";", "<", "=", ">", "?",
      "@", "A", "B", "C", "D", "E", "F", "G", "H", "I", "J", "K", "L", "M", "N", "O",
      "P", "Q", "R", "S", "T", "U", "V", "W", "X", "Y", "Z", "[", "\\", "]", "^", "_",
      "grave", "a", "b", "c", "d", "e", "f", "g", "h", "i", "j", "k", "l", "m", "n", "o",
      "p", "q", "r", "s", "t", "u", "v", "w", "x", "y", "z", "{", "|", "}", "~">>

\* the byte of a printable character
Byte(ch) == 31 + (CHOOSE i \in 1..Len(Printable) : Printable[i] = ch)

\* s < t for Go strings: the first byte that differs decides, a proper
\* prefix is smaller
RECURSIVE Less(_, _)
Less(s, t) ==
    IF Len(t) = 0 THEN FALSE
    ELSE IF Len(s) = 0 THEN TRUE
    ELSE IF s[1] = t[1] THEN Less(Tail(s), Tail(t))
    ELSE Byte(s[1]) < Byte(t[1])

\* the characters url.QueryEscape leaves as they are: letters, digits and
\* - _ . ~
Unreserved ==
    {Printable[i] : i \in (17..26) \cup (34..59) \cup (66..91)} \cup {"-", "_", ".", "~"}

UpperHex ==
    <<"0", "1", "2", "3", "4", "5", "6", "7", "8", "9", "A", "B", "C", "D", "E", "F">>

\* url.QueryEscape: a space becomes "+", every other character that is not
\* unreserved becomes "%" and the two upper-case hex digits of its byte
RECURSIVE QueryEscape(_)
QueryEscape(chars) ==
    IF Len(chars) = 0 THEN <<>>
    ELSE (IF chars[1] \in Unreserved THEN <<chars[1]>>
          ELSE IF chars[1] = " " THEN <<"+">>
          ELSE <<"%", UpperHex[(Byte(chars[1]) \div 16) + 1],
                 UpperHex[(Byte(chars[1]) % 16) + 1]>>)
         \o QueryEscape(Tail(chars))

\* parameter p put into parameters sorted by name, behind those of its name
RECURSIVE InsertByKey(_, _)
InsertByKey(sorted, p) ==
    IF Len(sorted) = 0 THEN <<p>>
    ELSE IF Less(Chars(p.name), Chars(sorted[1].name)) THEN <<p>> \o sorted
    ELSE <<sorted[1]>> \o InsertByKey(Tail(sorted), p)

\* the parameters sorted by name, those of one name in the order they were
\* added
RECURSIVE SortByKey(_)
SortByKey(values) ==
    IF Len(values) = 0 THEN <<>>
    ELSE InsertByKey(SortByKey(SubSeq(values, 1, Len(values) - 1)), values[Len(values)])

\* name=value of each parameter in turn, escaped, with "&" between them
RECURSIVE EncodePairs(_)
EncodePairs(sorted) ==
    IF Len(sorted) = 0 THEN <<>>
    ELSE QueryEscape(Chars(sorted[1].name)) \o <<"=">> \o QueryEscape(sorted[1].value)
         \o (IF Len(sorted) = 1 THEN <<>> ELSE <<"&">> \o EncodePairs(Tail(sorted)))

\* url.Values.Encode(): the characters of the query string
Encode(values) == EncodePairs(SortByKey(values))

---------------------------------------------------------------------------
(* utils.WithRetry *)

\* the loop test with "<" for "<="
LoopContinuesStrict(n) == n < retryConfig.MaxRetries

\* for attempt := 0; attempt <= config.MaxRetries; attempt++
LoopContinues(n) == n <= retryConfig.MaxRetries

\* the status test with ">" for ">="
NonRetryableAbove400(err) ==
    /\ IsDokanError(err)
    /\ err.StatusCode > 400
    /\ err.StatusCode < 500
    /\ err.StatusCode # 429

\* the status test without the exception for 429
NonRetryableAll4xx(err) ==
    /\ IsDokanError(err)
    /\ err.StatusCode >= 400
    /\ err.StatusCode < 500

\* "Don't retry client errors (4xx) except rate limiting"
NonRetryable(err) ==
    /\ IsDokanError(err)
    /\ err.StatusCode >= 400
    /\ err.StatusCode < 500
    /\ err.StatusCode # 429

Min(a, b) == IF a < b THEN a ELSE b

\* the delay without "if delay > config.MaxDelay"
DelayUncapped(n) == retryConfig.BaseDelay * n * retryConfig.Multiplier

\* delay before the attempt with loop index n >= 1
Delay(n) == Min(retryConfig.BaseDelay * n * retryConfig.Multiplier, retryConfig.MaxDelay)

\* the loop without "if lastErr == nil { return nil }"
AfterFnNoSuccessReturn(n, err) ==
    IF err # NoError /\ NonRetryable(err) THEN "return"
    ELSE IF LoopContinues(n + 1) THEN "wait"
    ELSE "return"

\* Where WithRetry goes once fn() has returned err in the iteration with
\* loop index n: "return" (with lastErr) or "wait" (next iteration's select).
AfterFn(n, err) ==
    IF err = NoError THEN "return"
    ELSE IF NonRetryable(err) THEN "return"
    ELSE IF LoopContinues(n + 1) THEN "wait"
    ELSE "return"

\* fn() of Client.MakeRequest returns (resp, err) to WithRetry in call c:
\* lastResponse, lastError and lastErr are assigned and the loop goes on.
FnReturns(c, resp, err) ==
    /\ lastResponse' = [lastResponse EXCEPT ![c] = resp]
    /\ lastErr' = [lastErr EXCEPT ![c] = err]
    /\ errs' = [errs EXCEPT ![c] = Append(@, err)]
    /\ IF AfterFn(attempt[c], err) = "return"
       THEN /\ pc' = [pc EXCEPT ![c] = "done"]
            /\ result' = [result EXCEPT ![c] = err]
            /\ UNCHANGED attempt
       ELSE /\ pc' = [pc EXCEPT ![c] = "wait"]
            /\ attempt' = [attempt EXCEPT ![c] = @ + 1]
            /\ UNCHANGED result

\* the attempt goes on inside fn(): WithRetry's own variables are untouched
FnContinues(c, label) ==
    /\ pc' = [pc EXCEPT ![c] = label]
    /\ UNCHANGED <<attempt, lastErr, lastResponse, result, errs>>

\* Client.MakeRequest is entered and WithRetry reaches its loop test for the
\* first time (attempt = 0, lastErr = nil).
Call(c) ==
    /\ pc[c] = "call"
    /\ api[c] \in {"MakeRequest", "Products.Get"}
    /\ ctxAtStart' = [ctxAtStart EXCEPT ![c] = ctxDone[c]]
    /\ IF LoopContinues(0)
       THEN /\ pc' = [pc EXCEPT ![c] = "fn"]
            /\ UNCHANGED result
       ELSE /\ pc' = [pc EXCEPT ![c] = "done"]
            /\ result' = [result EXCEPT ![c] = lastErr[c]]
    /\ UNCHANGED <<calls, oldAuth, holds, app, baseURL, config, built, opts, request, opErr, api,
                   cancelledAt, retryConfig, auth, now, transport, ctxDone, attempt,
                   lastErr, lastResponse, pending, req, attachValid, errs,
                   delays, exchanges, sentAuth, authCalls, refreshCalls, issued>>

\* a wait that a cancelled context does not interrupt
WaitElapsedUninterruptible(c) ==
    /\ pc[c] = "wait"
    /\ delays' = [delays EXCEPT ![c] = Append(@, Delay(attempt[c]))]
    /\ pc' = [pc EXCEPT ![c] = "fn"]
    /\ UNCHANGED <<calls, oldAuth, holds, app, baseURL, config, built, opts, request, opErr, api,
                   cancelledAt, retryConfig, auth, now, transport, ctxDone,
                   ctxAtStart, attempt, lastErr, lastResponse, result, pending,
                   req, attachValid, errs, exchanges, sentAuth, authCalls,
                   refreshCalls, issued>>

\* select: <-time.After(delay) fires first.  The delay is positive, so the
\* timer is not ready when the select is entered, and a goroutine blocked on
\* both channels is woken by the one that becomes ready first: the timer
\* wins only while the context is not done.
WaitElapsed(c) ==
    /\ pc[c] = "wait"
    /\ ~ctxDone[c]
    /\ delays' = [delays EXCEPT ![c] = Append(@, Delay(attempt[c]))]
    /\ pc' = [pc EXCEPT ![c] = "fn"]
    /\ UNCHANGED <<calls, oldAuth, holds, app, baseURL, config, built, opts, request, opErr, api,
                   cancelledAt, retryConfig, auth, now, transport, ctxDone, ctxAtStart,
                   attempt, lastErr, lastResponse, result, pending, req,
                   attachValid, errs, exchanges, sentAuth, authCalls,
                   refreshCalls, issued>>

\* the cancelled wait returning lastErr for ctx.Err()
WaitCancelledLastErr(c) ==
    /\ pc[c] = "wait"
    /\ ctxDone[c]
    /\ pc' = [pc EXCEPT ![c] = "done"]
    /\ result' = [result EXCEPT ![c] = lastErr[c]]
    /\ UNCHANGED <<calls, oldAuth, holds, app, baseURL, config, built, opts, request, opErr, api,
                   cancelledAt, retryConfig, auth, now, transport, ctxDone,
                   ctxAtStart, attempt, lastErr, lastResponse, pending, req,
                   attachValid, errs, delays, exchanges, sentAuth, authCalls,
                   refreshCalls, issued>>

\* select: <-ctx.Done() is ready: return ctx.Err()
WaitCancelled(c) ==
    /\ pc[c] = "wait"
    /\ ctxDone[c]
    /\ pc' = [pc EXCEPT ![c] = "done"]
    /\ result' = [result EXCEPT ![c] = CtxErr]
    /\ UNCHANGED <<calls, oldAuth, holds, app, baseURL, config, built, opts, request, opErr, api,
                   cancelledAt, retryConfig, auth, now, transport, ctxDone, ctxAtStart,
                   attempt, lastErr, lastResponse, pending, req, attachValid,
                   errs, delays, exchanges, sentAuth, authCalls, refreshCalls,
                   issued>>

\* the caller cancels the context, or its deadline passes
Cancel(c) ==
    /\ pc[c] # "done"
    /\ ~ctxDone[c]
    /\ ctxDone' = [ctxDone EXCEPT ![c] = TRUE]
    /\ cancelledAt' = [cancelledAt EXCEPT ![c] = pc[c]]
    /\ UNCHANGED <<calls, oldAuth, holds, app, baseURL, config, built, opts, request, opErr, api,
                   retryConfig, auth, now, transport, ctxAtStart, pc,
                   attempt, lastErr, lastResponse, result, pending, req,
                   attachValid, errs, delays, exchanges, sentAuth, authCalls,
                   refreshCalls, issued>>

---------------------------------------------------------------------------
(* One attempt: fn() of Client.MakeRequest = utils.MakeRequest on an       *)
(* authenticatedClient                                                     *)

\* authenticatedClient.Do wraps the Authenticator's error; utils.MakeRequest
\* wraps every error of client.Do as a NetworkError.
AuthFailed == Errorf("authentication failed")
DoError(err) == NewNetworkError(err)

\* RequestOptions: the query object, the body (nil, or a value with whether
\* json.Marshal accepts it), the method and the caller's headers
NoBody == [nil |-> TRUE]
Body(marshals) == [nil |-> FALSE, marshals |-> marshals]
NoHeaders == [k \in {} |-> ""]
RequestOptions(method, query, body, headers) ==
    [Method |-> method, Query |-> query, Body |-> body, Headers |-> headers]
\* a GET without query, body or headers
PlainOptions == RequestOptions("GET", NilQuery, NoBody, NoHeaders)

\* url.Parse accepts the base URL
ParsesAsURL(url) == url # "://missing-scheme"
\* http.NewRequestWithContext accepts the method
ValidMethod(method) == method \in {"", "GET", "POST", "PUT", "DELETE"}

\* The error with which utils.MakeRequest returns before it has a request,
\* nil when the request is built.
LocalError(url, o) ==
    IF ~ParsesAsURL(url) THEN Errorf("invalid base URL")
    ELSE IF o.Query # NilQuery /\ StructToURLValues(o.Query).err # NoError
    THEN Errorf("failed to encode query parameters")
    ELSE IF ~o.Body.nil /\ ~o.Body.marshals THEN Errorf("failed to marshal request body")
    ELSE IF ~ValidMethod(o.Method) THEN Errorf("failed to create request")
    ELSE NoError

\* textproto.CanonicalMIMEHeaderKey, as http.Header.Set applies it
CanonicalMIMEHeaderKey(key) ==
    CASE key = "authorization" -> "Authorization"
      [] key = "accept" -> "Accept"
      [] key = "content-type" -> "Content-Type"
      [] OTHER -> key

\* the caller's headers never replacing a header that is already set
AfterCallerHeadersKept(headers, name, value) ==
    LET given == {headers[k] : k \in {h \in DOMAIN headers : CanonicalMIMEHeaderKey(h) = name}}
    IN  IF given = {} \/ value # "" THEN {value} ELSE given

\* The values header `name` can have after "for key, value := range
\* opts.Headers { req.Header.Set(key, value) }" when it was `value` before:
\* a Go map is ranged over in no fixed order, so any of the caller's keys
\* with that canonical form can be the last one set.
AfterCallerHeaders(headers, name, value) ==
    LET given == {headers[k] : k \in {h \in DOMAIN headers : CanonicalMIMEHeaderKey(h) = name}}
    IN  IF given = {} THEN {value} ELSE given

\* A request: the url.Values of its query object, the RawQuery of its URL
\* and its Content-Type and Accept headers
NoRequest == [values |-> <<>>, query |-> <<>>, contentType |-> "", accept |-> ""]

\* fn() of Client.MakeRequest puts the Authenticator the client holds into
\* an authenticatedClient, which the attempt keeps to its end; then
\* utils.MakeRequest up to client.Do: it parses the base URL, encodes the
\* query object into the RawQuery of the URL, marshals the body and creates
\* the request, returning a plain error if one of these fails; then it sets
\* Content-Type (with a body), Accept and the caller's headers.
StartAttempt(c) ==
    /\ pc[c] = "fn"
    /\ IF LocalError(baseURL, opts[c]) # NoError
       THEN /\ FnReturns(c, NoResponse, LocalError(baseURL, opts[c]))
            /\ UNCHANGED <<req, request>>
       ELSE /\ \E contentType \in AfterCallerHeaders(opts[c].Headers, "Content-Type",
                                   IF opts[c].Body.nil THEN "" ELSE "application/json"),
                  accept \in AfterCallerHeaders(opts[c].Headers, "Accept", "application/json"),
                  authorization \in AfterCallerHeaders(opts[c].Headers, "Authorization", "") :
                    /\ request' = [request EXCEPT ![c] =
                                      [values |-> StructToURLValues(opts[c].Query).values,
                                       query |->
                                           Encode(StructToURLValues(opts[c].Query).values),
                                       contentType |-> contentType, accept |-> accept]]
                    /\ req' = [req EXCEPT ![c] = IF authorization = "" THEN NoHeader
                                                 ELSE CallerHeader(authorization)]
            /\ FnContinues(c, "auth")
    /\ holds' = [holds EXCEPT ![c] = "client"]
    /\ UNCHANGED <<calls, oldAuth, app, baseURL, config, built, opts, opErr, api,
                   cancelledAt, retryConfig, auth, now, transport, ctxDone, ctxAtStart,
                   pending, attachValid, delays, exchanges, sentAuth, authCalls,
                   refreshCalls, issued>>

\* ac.auth (and j inside its methods): the Authenticator the attempt of call
\* c captured
AuthOf(c) == IF holds[c] = "old" THEN oldAuth ELSE auth

\* an assignment to a field of that Authenticator, which becomes a
StoreAuth(c, a) ==
    IF holds[c] = "old"
    THEN oldAuth' = a /\ UNCHANGED auth
    ELSE auth' = a /\ UNCHANGED oldAuth

\* BasicAuth.Authenticate checking the username only
AuthenticateEntryUsernameOnly(a, t) ==
    IF a.type = "basic"
    THEN IF a.username = "" THEN "fail" ELSE "do"
    ELSE IF a.token = NoToken THEN "fail"
         ELSE "check"

\* JWTAuth.Authenticate without the attempt to refresh an invalid token
AuthenticateEntryNoRefresh(a, t) ==
    IF a.type = "basic"
    THEN IF a.username = "" \/ a.password = "" THEN "fail" ELSE "do"
    ELSE IF a.token = NoToken THEN "fail"
         ELSE "recheck"

\* The outcome of the first statement of Authenticate on authenticator a at
\* time t: BasicAuth.Authenticate as a whole, whose fields nothing writes
\* after construction; JWTAuth.Authenticate up to its own reading of
\* j.token, after which it goes on to its first j.IsValid().
AuthenticateEntry(a, t) ==
    IF a.type = "basic"
    THEN IF a.username = "" \/ a.password = "" THEN "fail" ELSE "do"
    ELSE IF a.token = NoToken THEN "fail"
         ELSE "check"

\* authenticatedClient.Do going on to ac.client.Do although Authenticate
\* returned an error
AuthenticateErrorIgnored(c) ==
    /\ pc[c] = "auth"
    /\ authCalls' = [authCalls EXCEPT ![c] = @ + 1]
    /\ LET entry == AuthenticateEntry(AuthOf(c), now) IN
         /\ FnContinues(c, IF entry = "fail" THEN "do" ELSE entry)
         /\ req' = [req EXCEPT ![c] = IF entry = "do" THEN BasicHeader(AuthOf(c)) ELSE @]
         /\ attachValid' = [attachValid EXCEPT ![c] =
                               IF entry = "do" THEN BasicIsValid(AuthOf(c)) ELSE @]
    /\ UNCHANGED <<calls, oldAuth, holds, app, baseURL, config, built, opts, request, opErr, api,
                   cancelledAt, retryConfig, auth, now, transport, ctxDone,
                   ctxAtStart, pending, delays, exchanges, sentAuth,
                   refreshCalls, issued>>

\* authenticatedClient.Do calls ac.auth.Authenticate(req), which for a
\* JWTAuth reads j.token once and leaves every further reading of a field
\* to a later step: JWTAuth has no lock, so a write of SetToken or of
\* another call's Refresh can land between any two of them.
Authenticate(c) ==
    /\ pc[c] = "auth"
    /\ authCalls' = [authCalls EXCEPT ![c] = @ + 1]
    /\ LET entry == AuthenticateEntry(AuthOf(c), now) IN
         /\ IF entry = "fail"
            THEN FnReturns(c, NoResponse, DoError(AuthFailed))
            ELSE FnContinues(c, entry)
         /\ req' = [req EXCEPT ![c] = IF entry = "do" THEN BasicHeader(AuthOf(c)) ELSE @]
         /\ attachValid' = [attachValid EXCEPT ![c] =
                               IF entry = "do" THEN BasicIsValid(AuthOf(c)) ELSE @]
    /\ UNCHANGED <<calls, oldAuth, holds, app, baseURL, config, built, opts, request, opErr, api,
                   cancelledAt, retryConfig, auth, now, transport, ctxDone,
                   ctxAtStart, pending, delays, exchanges, sentAuth,
                   refreshCalls, issued>>

\* Refresh without the guard on the refresh token
CanRefreshWithoutToken(a) == a.type = "jwt" /\ a.refreshFunc

\* Whether Refresh reaches the call of the refresh function: never for
\* BasicAuth, whose Refresh only returns nil
CanRefresh(a) == a.type = "jwt" /\ a.refreshFunc /\ a.refreshToken # ""

\* the error of the two guards of JWTAuth.Refresh, nil when both pass
RefreshGuardErr(a) ==
    IF a.type = "basic" THEN NoError
    ELSE IF ~a.refreshFunc THEN Errorf("no refresh function provided")
    ELSE IF a.refreshToken = "" THEN Errorf("no refresh token available")
    ELSE NoError

\* the error of the refresh function, which Refresh returns as it is
RefreshFuncErr == Errorf("refresh function failed")

\* JWTAuth.Refresh returns err in call c: to the application when the call
\* entered Refresh itself, otherwise to JWTAuth.Authenticate, which goes on
\* to its second IsValid check or fails the attempt.
RefreshReturns(c, err) ==
    IF api[c] = "Refresh"
    THEN /\ pc' = [pc EXCEPT ![c] = "done"]
         /\ result' = [result EXCEPT ![c] = err]
         /\ UNCHANGED <<attempt, lastErr, lastResponse, errs>>
    ELSE IF err = NoError
         THEN FnContinues(c, "recheck")
         ELSE FnReturns(c, NoResponse, DoError(AuthFailed))

\* JWTAuth.Refresh up to the return of j.refreshFunc(j.refreshToken).  It
\* reads j.refreshToken twice, for the guard and for the argument; the
\* outcome of the refresh function is free whatever its argument, and
\* nothing writes j.refreshFunc, so a SetRefreshToken between the two
\* readings leaves the same states as one just after this step.
Refresh(c) ==
    /\ pc[c] = "refresh"
    /\ IF ~CanRefresh(AuthOf(c))
       THEN /\ RefreshReturns(c, RefreshGuardErr(AuthOf(c)))
            /\ UNCHANGED <<pending, refreshCalls, issued>>
       ELSE \E outcome \in RefreshOutcomes :
              /\ refreshCalls' = [refreshCalls EXCEPT ![c] = @ + 1]
              /\ IF outcome = "error"
                 THEN /\ RefreshReturns(c, RefreshFuncErr)
                      /\ UNCHANGED <<pending, issued>>
                 ELSE /\ issued' = issued + 1
                      /\ pending' = [pending EXCEPT ![c] =
                             [token |-> issued + 2,
                              expiresAt |-> RefreshExpiry(outcome, now)]]
                      /\ FnContinues(c, "wtoken")
    /\ UNCHANGED <<calls, oldAuth, holds, app, baseURL, config, built, opts, request, opErr, api,
                   cancelledAt, retryConfig, auth, now, transport, ctxDone, ctxAtStart,
                   req, attachValid, delays, exchanges, sentAuth, authCalls>>

\* j.token = newToken
WriteToken(c) ==
    /\ pc[c] = "wtoken"
    /\ StoreAuth(c, [AuthOf(c) EXCEPT !.token = pending[c].token])
    /\ FnContinues(c, "wexpiry")
    /\ UNCHANGED <<calls, holds, app, baseURL, config, built, opts, request, opErr, api,
                   cancelledAt, retryConfig, now, transport, ctxDone, ctxAtStart,
                   pending, req, attachValid, delays, exchanges, sentAuth,
                   authCalls, refreshCalls, issued>>

\* j.expiresAt = expiresAt
WriteExpiry(c) ==
    /\ pc[c] = "wexpiry"
    /\ StoreAuth(c, [AuthOf(c) EXCEPT !.expiresAt = pending[c].expiresAt])
    /\ RefreshReturns(c, NoError)
    /\ UNCHANGED <<calls, holds, app, baseURL, config, built, opts, request, opErr, api,
                   cancelledAt, retryConfig, now, transport, ctxDone, ctxAtStart,
                   pending, req, attachValid, delays, exchanges, sentAuth,
                   authCalls, refreshCalls, issued>>

\* call c is inside the first j.IsValid() of JWTAuth.Authenticate, the one
\* that decides on the refresh; otherwise inside the second
InFirstIsValid(c) == pc[c] \in {"check", "checkzero", "checkbefore"}

\* j.IsValid() returns to JWTAuth.Authenticate: the first one to
\* "if !j.IsValid() && j.refreshFunc != nil", which enters j.Refresh() or
\* goes on to the second; the second one to "if !j.IsValid() { return
\* error }".  Nothing writes j.refreshFunc after construction.
IsValidReturns(c, valid) ==
    IF InFirstIsValid(c)
    THEN FnContinues(c, IF ~valid /\ AuthOf(c).refreshFunc THEN "refresh" ELSE "recheck")
    ELSE IF valid
         THEN FnContinues(c, "header")
         ELSE FnReturns(c, NoResponse, DoError(AuthFailed))

\* if j.token == "" { return false }, the first reading of IsValid
IsValidToken(c) ==
    /\ pc[c] \in {"check", "recheck"}
    /\ IF AuthOf(c).token = NoToken
       THEN IsValidReturns(c, FALSE)
       ELSE FnContinues(c, IF InFirstIsValid(c) THEN "checkzero" ELSE "recheckzero")
    /\ UNCHANGED <<calls, oldAuth, holds, app, baseURL, config, built, opts, request, opErr, api,
                   cancelledAt, retryConfig, auth, now, transport, ctxDone, ctxAtStart,
                   pending, req, attachValid, delays, exchanges, sentAuth,
                   authCalls, refreshCalls, issued>>

\* if j.expiresAt.IsZero() { return true }, the second reading of IsValid
IsValidZero(c) ==
    /\ pc[c] \in {"checkzero", "recheckzero"}
    /\ IF AuthOf(c).expiresAt = ZeroTime
       THEN IsValidReturns(c, TRUE)
       ELSE FnContinues(c, IF InFirstIsValid(c) THEN "checkbefore" ELSE "recheckbefore")
    /\ UNCHANGED <<calls, oldAuth, holds, app, baseURL, config, built, opts, request, opErr, api,
                   cancelledAt, retryConfig, auth, now, transport, ctxDone, ctxAtStart,
                   pending, req, attachValid, delays, exchanges, sentAuth,
                   authCalls, refreshCalls, issued>>

\* return time.Now().Add(5 * time.Minute).Before(j.expiresAt), which reads
\* j.expiresAt again: the zero time, written since IsZero was false, is
\* before every time.Now()
IsValidBefore(c) ==
    /\ pc[c] \in {"checkbefore", "recheckbefore"}
    /\ IsValidReturns(c, BeforeExpiry(now, AuthOf(c).expiresAt))
    /\ UNCHANGED <<calls, oldAuth, holds, app, baseURL, config, built, opts, request, opErr, api,
                   cancelledAt, retryConfig, auth, now, transport, ctxDone, ctxAtStart,
                   pending, req, attachValid, delays, exchanges, sentAuth,
                   authCalls, refreshCalls, issued>>

\* req.Header.Set("Authorization", "Bearer "+j.token)
SetHeader(c) ==
    /\ pc[c] = "header"
    /\ req' = [req EXCEPT ![c] = BearerHeader(AuthOf(c).token)]
    /\ attachValid' = [attachValid EXCEPT ![c] = JWTIsValid(AuthOf(c), now)]
    /\ FnContinues(c, "do")
    /\ UNCHANGED <<calls, oldAuth, holds, app, baseURL, config, built, opts, request, opErr, api,
                   cancelledAt, retryConfig, auth, now, transport, ctxDone, ctxAtStart,
                   pending, delays, exchanges, sentAuth, authCalls, refreshCalls,
                   issued>>

\* whether the context of call c is done when its request is with the
\* transport: not at all ("no"), since before the request was handed over
\* ("before"), or since a moment at which the transport had it ("during")
Cancelled(c) ==
    IF ~ctxDone[c] THEN "no"
    ELSE IF cancelledAt[c] = "do" THEN "during"
    ELSE "before"

\* What ac.client.Do can return for the n-th exchange of a call: the
\* transport's answer while the context is not done, and the context's
\* error when it is.  A context cancelled while the transport has the
\* request can also be noticed only after the headers of the answer have
\* arrived, and then the body cannot be read to its end.
TransportDo(t, n, cancelled) ==
    IF cancelled = "no" THEN {ScriptAnswer(t, n)}
    ELSE IF cancelled = "during" /\ ~ScriptAnswer(t, n).failed
    THEN {TransportFailure, Answer(ScriptAnswer(t, n).StatusCode, BodyUnreadable)}
    ELSE {TransportFailure}

\* the error utils.MakeRequest returns when io.ReadAll(resp.Body) failed
ReadError == Errorf("failed to read response body")

\* the error utils.MakeRequest returns when client.Do failed
TransportError(cancelled) ==
    DoError(IF cancelled THEN CtxErr ELSE Errorf("transport failure"))

\* utils.MakeRequest repeating by itself a first exchange that failed
DoRepeatsFailedExchange(c) ==
    /\ pc[c] = "do"
    /\ exchanges' = [exchanges EXCEPT ![c] = @ + 1]
    /\ sentAuth' = [sentAuth EXCEPT ![c] =
                        Append(@, [header |-> req[c], validAtAttach |-> attachValid[c]])]
    /\ \E answer \in TransportDo(transport[c], exchanges[c] + 1, Cancelled(c)) :
         IF answer.failed
         THEN IF exchanges[c] = 0
              THEN FnContinues(c, "do")
              ELSE FnReturns(c, NoResponse, TransportError(ctxDone[c]))
         ELSE IF answer.Body = BodyUnreadable
         THEN FnReturns(c, NoResponse, ReadError)
         ELSE FnReturns(c, Response(answer.StatusCode, answer.Body),
                        ClassifyResponse(answer.StatusCode, answer.Body))
    /\ UNCHANGED <<calls, oldAuth, holds, app, baseURL, config, built, opts, request, opErr, api,
                   cancelledAt, retryConfig, auth, now, transport, ctxDone, ctxAtStart,
                   pending, req, attachValid, delays, authCalls, refreshCalls,
                   issued>>

\* ac.client.Do(req), and the rest of utils.MakeRequest once it has returned
Do(c) ==
    /\ pc[c] = "do"
    /\ exchanges' = [exchanges EXCEPT ![c] = @ + 1]
    /\ sentAuth' = [sentAuth EXCEPT ![c] =
                        Append(@, [header |-> req[c], validAtAttach |-> attachValid[c]])]
    /\ \E answer \in TransportDo(transport[c], exchanges[c] + 1, Cancelled(c)) :
         IF answer.failed
         THEN FnReturns(c, NoResponse, TransportError(ctxDone[c]))
         ELSE IF answer.Body = BodyUnreadable
         THEN FnReturns(c, NoResponse, ReadError)
         ELSE FnReturns(c, Response(answer.StatusCode, answer.Body),
                        ClassifyResponse(answer.StatusCode, answer.Body))
    /\ UNCHANGED <<calls, oldAuth, holds, app, baseURL, config, built, opts, request, opErr, api,
                   cancelledAt, retryConfig, auth, now, transport, ctxDone, ctxAtStart,
                   pending, req, attachValid, delays, authCalls, refreshCalls,
                   issued>>

---------------------------------------------------------------------------
(* The setters the application calls next to the calls in flight: none of  *)
(* them synchronises with Authenticate or Refresh                          *)

\* what NewClient returns when it succeeds
ClientBuilt == [kind |-> "client"]

\* the setter calls the application makes
MaxSetterCalls == 1

\* the application outside the setters, with n setter calls still to make
AppIdle(n) == [pc |-> "idle", expiresAt |-> ZeroTime, left |-> n]

\* the attempt of call c holds an authenticatedClient
InFlight(c) ==
    pc[c] \in {"auth", "check", "checkzero", "checkbefore", "refresh", "wtoken", "wexpiry",
              "recheck", "recheckzero", "recheckbefore", "header", "do"}

\* JWTAuth.SetToken(token, expiresAt) on the JWTAuth of the client, up to
\* j.token = token
SetToken(token, expiresAt) ==
    /\ app.pc = "idle"
    /\ app.left > 0
    /\ auth.type = "jwt"
    /\ auth' = [auth EXCEPT !.token = token]
    /\ app' = [pc |-> "wexpiry", expiresAt |-> expiresAt, left |-> app.left - 1]
    /\ UNCHANGED <<calls, oldAuth, holds, baseURL, config, built, opts, request, opErr,
                   api, cancelledAt, retryConfig, now, transport, ctxDone, ctxAtStart,
                   pc, attempt, lastErr, lastResponse, result, pending, req,
                   attachValid, errs, delays, exchanges, sentAuth, authCalls,
                   refreshCalls, issued>>

\* j.expiresAt = expiresAt, with which JWTAuth.SetToken returns
SetTokenExpiry ==
    /\ app.pc = "wexpiry"
    /\ auth' = [auth EXCEPT !.expiresAt = app.expiresAt]
    /\ app' = AppIdle(app.left)
    /\ UNCHANGED <<calls, oldAuth, holds, baseURL, config, built, opts, request, opErr,
                   api, cancelledAt, retryConfig, now, transport, ctxDone, ctxAtStart,
                   pc, attempt, lastErr, lastResponse, result, pending, req,
                   attachValid, errs, delays, exchanges, sentAuth, authCalls,
                   refreshCalls, issued>>

\* JWTAuth.SetRefreshToken(refreshToken) on the JWTAuth of the client
SetRefreshToken(refreshToken) ==
    /\ app.pc = "idle"
    /\ app.left > 0
    /\ auth.type = "jwt"
    /\ auth' = [auth EXCEPT !.refreshToken = refreshToken]
    /\ app' = AppIdle(app.left - 1)
    /\ UNCHANGED <<calls, oldAuth, holds, baseURL, config, built, opts, request, opErr,
                   api, cancelledAt, retryConfig, now, transport, ctxDone, ctxAtStart,
                   pc, attempt, lastErr, lastResponse, result, pending, req,
                   attachValid, errs, delays, exchanges, sentAuth, authCalls,
                   refreshCalls, issued>>

\* Client.SetAuth(authenticator): the client holds the new Authenticator,
\* the attempts in flight keep the one they captured.  At most one replaced
\* Authenticator is followed, so the setter waits while an attempt still
\* holds an earlier one.
SetAuth(authenticator) ==
    /\ app.pc = "idle"
    /\ app.left > 0
    /\ built = ClientBuilt
    /\ \A c \in calls : ~(InFlight(c) /\ holds[c] = "old")
    /\ auth' = authenticator
    /\ oldAuth' = auth
    /\ holds' = [c \in calls |-> IF InFlight(c) THEN "old" ELSE "client"]
    /\ app' = AppIdle(app.left - 1)
    /\ UNCHANGED <<calls, baseURL, config, built, opts, request, opErr, api,
                   cancelledAt, retryConfig, now, transport, ctxDone, ctxAtStart, pc,
                   attempt, lastErr, lastResponse, result, pending, req, attachValid,
                   errs, delays, exchanges, sentAuth, authCalls, refreshCalls, issued>>

---------------------------------------------------------------------------
(* Clients and calls *)

\* NewClient: the retry policy of a client built with RetryCount(n)
NewRetryConfig(n) ==
    [MaxRetries |-> n, BaseDelay |-> BaseDelay, MaxDelay |-> MaxDelay,
     Multiplier |-> Multiplier]

RetryCounts == (0 - 1)..MaxRetryCount

BasicOK == NewBasicAuth("user", "pass")

\* an expiry that has passed, and one inside the safety margin
Expired(t) == t - 1
InsideMargin(t) == t + SafetyMargin - 1

\* Authenticators a client can hold (NewAuthenticator, or SetAuth)
Authenticators(t) ==
    {BasicOK, NewBasicAuth("", ""), NewBasicAuth("user", ""),
     NewJWTAuth(1, ZeroTime), NewJWTAuth(NoToken, ZeroTime),
     NewJWTAuth(1, t + TokenLifetime), NewJWTAuth(1, Expired(t)),
     NewJWTAuth(1, InsideMargin(t)),
     NewJWTAuthWithRefresh(1, Expired(t), "refresh", TRUE),
     NewJWTAuthWithRefresh(1, Expired(t), "", TRUE),
     NewJWTAuthWithRefresh(1, t + TokenLifetime, "refresh", TRUE)}

\* the transports the authenticators other than BasicOK are run against
ProbeScripts ==
    {Always(Answer(200, BodyEmptyObject)), Always(Answer(401, BodyEmptyObject)),
     Always(TransportFailure)}

\* the locals and the histories of the calls in cs before they start
InitLocals(cs) ==
    /\ calls = cs
    /\ ctxAtStart = [c \in cs |-> FALSE]
    /\ cancelledAt = [c \in cs |-> "never"]
    /\ attempt = [c \in cs |-> 0]
    /\ lastErr = [c \in cs |-> NoError]
    /\ lastResponse = [c \in cs |-> NoResponse]
    /\ result = [c \in cs |-> NoError]
    /\ pending = [c \in cs |-> [token |-> NoToken, expiresAt |-> ZeroTime]]
    /\ req = [c \in cs |-> NoHeader]
    /\ attachValid = [c \in cs |-> FALSE]
    /\ errs = [c \in cs |-> <<>>]
    /\ delays = [c \in cs |-> <<>>]
    /\ exchanges = [c \in cs |-> 0]
    /\ sentAuth = [c \in cs |-> <<>>]
    /\ authCalls = [c \in cs |-> 0]
    /\ refreshCalls = [c \in cs |-> 0]
    /\ issued = 0
    /\ request = [c \in cs |-> NoRequest]
    /\ opErr = [c \in cs |-> NoError]
    /\ oldAuth = NilAuthenticator
    /\ holds = [c \in cs |-> "client"]
    /\ app = AppIdle(MaxSetterCalls)

\* a client NewClient returned, with a base URL that parses
Unrecorded == [recorded |-> FALSE]
InitClient ==
    /\ baseURL = "https://example.com"
    /\ config = Unrecorded
    /\ built = ClientBuilt

\* the state of the calls in cs before Client.MakeRequest is entered
InitCalls(cs) ==
    /\ InitLocals(cs)
    /\ InitClient
    /\ opts = [c \in cs |-> PlainOptions]
    /\ api = [c \in cs |-> "MakeRequest"]
    /\ pc = [c \in cs |-> "call"]

\* One call on a client: every retry count, and either every scripted
\* transport behind valid basic credentials or every authenticator in front
\* of a probe transport; the context may be cancelled from the start.
Init ==
    /\ InitCalls({1})
    /\ now = StartTime
    /\ retryConfig \in {NewRetryConfig(n) : n \in RetryCounts}
    /\ \/ auth = BasicOK /\ transport \in [{1} -> Scripts]
       \/ auth \in Authenticators(now) /\ transport \in [{1} -> ProbeScripts]
    /\ ctxDone \in [{1} -> BOOLEAN]

Next ==
    \/ \E c \in calls : Call(c)
    \/ \E c \in calls : StartAttempt(c)
    \/ \E c \in calls : Authenticate(c)
    \/ \E c \in calls : Refresh(c)
    \/ \E c \in calls : WriteToken(c)
    \/ \E c \in calls : WriteExpiry(c)
    \/ \E c \in calls : IsValidToken(c)
    \/ \E c \in calls : IsValidZero(c)
    \/ \E c \in calls : IsValidBefore(c)
    \/ \E c \in calls : SetHeader(c)
    \/ \E c \in calls : Do(c)
    \/ \E c \in calls : WaitElapsed(c)
    \/ \E c \in calls : WaitCancelled(c)
    \/ \E c \in calls : Cancel(c)

Spec == Init /\ [][Next]_vars

\* Two concurrent calls on one client that holds a bearer authenticator with
\* a refresh function; both talk to a transport that answers 200.
ConcurrentCalls == {1, 2}
ConcurrentRetryCounts == {0, 1}

InitConcurrent ==
    /\ InitCalls(ConcurrentCalls)
    /\ now = StartTime
    /\ retryConfig \in {NewRetryConfig(n) : n \in ConcurrentRetryCounts}
    /\ auth \in {NewJWTAuthWithRefresh(1, Expired(now), "refresh", TRUE),
                 NewJWTAuthWithRefresh(1, now + TokenLifetime, "refresh", TRUE)}
    /\ transport = [c \in ConcurrentCalls |-> Always(Answer(200, BodyEmptyObject))]
    /\ ctxDone = [c \in ConcurrentCalls |-> FALSE]

SpecConcurrent == InitConcurrent /\ [][Next]_vars

\* The classification of responses: one call without retries on a client
\* with valid basic credentials, against a transport that answers with any
\* status from 100 to MaxStatus and any kind of body.
MaxStatus == 599
Statuses == 100..MaxStatus
ClassifyBodies == ErrorBodies \cup {BodyMessageOnly}

InitClassify ==
    /\ InitCalls({1})
    /\ now = StartTime
    /\ retryConfig = NewRetryConfig(0)
    /\ auth = BasicOK
    /\ transport \in [{1} -> {Always(Answer(s, b)) : s \in Statuses, b \in ClassifyBodies}]
    /\ ctxDone = [c \in {1} |-> FALSE]

NextClassify ==
    \/ \E c \in calls : Call(c)
    \/ \E c \in calls : StartAttempt(c)
    \/ \E c \in calls : Authenticate(c)
    \/ \E c \in calls : Do(c)

SpecClassify == InitClassify /\ [][NextClassify]_vars

\* The bearer authenticator: one call on a client holding any JWTAuth (with
\* or without token, refresh token and refresh function, the expiry unset
\* or from a minute ago to MaxAhead minutes ahead), or one direct call of
\* JWTAuth.Refresh by the application.
MaxAhead == 7
AuthRetryCounts == {0, 1}
Expiries(t) == {ZeroTime} \cup (t - 1)..(t + MaxAhead)
JWTAuths(t) ==
    {NewJWTAuthWithRefresh(token, expiresAt, refreshToken, hasRefreshFunc) :
        token \in {NoToken, 1}, expiresAt \in Expiries(t),
        refreshToken \in {"", "refresh"}, hasRefreshFunc \in BOOLEAN}

InitAuth ==
    /\ InitLocals({1})
    /\ InitClient
    /\ opts = [c \in {1} |-> PlainOptions]
    /\ api \in [{1} -> {"MakeRequest", "Refresh"}]
    /\ pc = [c \in {1} |-> IF api[c] = "Refresh" THEN "refresh" ELSE "call"]
    /\ now = StartTime
    /\ retryConfig \in {NewRetryConfig(n) : n \in AuthRetryCounts}
    /\ auth \in JWTAuths(now)
    /\ transport = [c \in {1} |-> Always(Answer(200, BodyEmptyObject))]
    /\ ctxDone = [c \in {1} |-> FALSE]

SpecAuth == InitAuth /\ [][Next]_vars

\* The application reconfiguring the authenticator: one call on a client
\* holding valid basic credentials or any JWTAuth, or one direct call of
\* Refresh, while the application makes up to MaxSetterCalls calls of
\* JWTAuth.SetToken, JWTAuth.SetRefreshToken and Client.SetAuth, before,
\* during and after the call.
SetTokens(t) == {NoToken, 2} \X {ZeroTime, Expired(t), t + TokenLifetime}
SetRefreshTokens == {"", "refresh"}
SetAuths(t) == {BasicOK, NewJWTAuth(3, t + TokenLifetime)}

InitReconfigure ==
    /\ InitLocals({1})
    /\ InitClient
    /\ opts = [c \in {1} |-> PlainOptions]
    /\ api \in [{1} -> {"MakeRequest", "Refresh"}]
    /\ pc = [c \in {1} |-> IF api[c] = "Refresh" THEN "refresh" ELSE "call"]
    /\ now = StartTime
    /\ retryConfig \in {NewRetryConfig(n) : n \in AuthRetryCounts}
    /\ auth \in JWTAuths(now) \cup {BasicOK}
    /\ transport = [c \in {1} |-> Always(Answer(200, BodyEmptyObject))]
    /\ ctxDone = [c \in {1} |-> FALSE]

NextReconfigure ==
    \/ \E c \in calls : Call(c)
    \/ \E c \in calls : StartAttempt(c)
    \/ \E c \in calls : Authenticate(c)
    \/ \E c \in calls : Refresh(c)
    \/ \E c \in calls : WriteToken(c)
    \/ \E c \in calls : WriteExpiry(c)
    \/ \E c \in calls : IsValidToken(c)
    \/ \E c \in calls : IsValidZero(c)
    \/ \E c \in calls : IsValidBefore(c)
    \/ \E c \in calls : SetHeader(c)
    \/ \E c \in calls : Do(c)
    \/ \E c \in calls : WaitElapsed(c)
    \/ \E c \in calls : WaitCancelled(c)
    \/ \E c \in calls : Cancel(c)
    \/ \E input \in SetTokens(now) : SetToken(input[1], input[2])
    \/ SetTokenExpiry
    \/ \E refreshToken \in SetRefreshTokens : SetRefreshToken(refreshToken)
    \/ \E authenticator \in SetAuths(now) : SetAuth(authenticator)

SpecReconfigure == InitReconfigure /\ [][NextReconfigure]_vars

\* The backoff schedule: one call whose every attempt fails with an error
\* that is retried, under the client's policy and under other policies
\* WithRetry can be given, with up to MaxBackoffRetries retries.
MaxBackoffRetries == 17
BackoffPolicies ==
    {NewRetryConfig(n) : n \in 0..MaxBackoffRetries}
        \cup [MaxRetries : 0..MaxBackoffRetries, BaseDelay : {1, 3},
               MaxDelay : {5, MaxDelay}, Multiplier : {1, 2}]
BackoffScripts ==
    {Always(TransportFailure), Always(Answer(500, BodyEmptyObject)),
     Always(Answer(429, BodyText))}

InitBackoff ==
    /\ InitCalls({1})
    /\ now = StartTime
    /\ retryConfig \in BackoffPolicies
    /\ auth = BasicOK
    /\ transport \in [{1} -> BackoffScripts]
    /\ ctxDone = [c \in {1} |-> FALSE]

NextBackoff ==
    \/ \E c \in calls : Call(c)
    \/ \E c \in calls : StartAttempt(c)
    \/ \E c \in calls : Authenticate(c)
    \/ \E c \in calls : Do(c)
    \/ \E c \in calls : WaitElapsed(c)
    \/ \E c \in calls : WaitCancelled(c)
    \/ \E c \in calls : Cancel(c)

SpecBackoff == InitBackoff /\ [][NextBackoff]_vars

\* types.ListParams{Page: page, PerPage: perPage}
ListParams(page, perPage) ==
    Struct(<<Field("Page", TRUE, <<"page", "omitempty">>, IntVal(page)),
             Field("PerPage", TRUE, <<"per_page", "omitempty">>, IntVal(perPage)),
             Field("Search", TRUE, <<"search", "omitempty">>, Str(<<>>)),
             Field("OrderBy", TRUE, <<"orderby", "omitempty">>, Str(<<>>)),
             Field("Order", TRUE, <<"order", "omitempty">>, Str(<<>>))>>)

\* types.ProductListParams{ListParams: ListParams{Page: page, PerPage:
\* perPage}, Category: category}: the embedded ListParams is a field named
\* ListParams that has no `url` tag
ProductListParams(page, perPage, category) ==
    Struct(<<Field("ListParams", TRUE, <<"">>, ListParams(page, perPage)),
             Field("Status", TRUE, <<"status", "omitempty">>, Slice("string", <<>>)),
             Field("Type", TRUE, <<"type", "omitempty">>, Slice("string", <<>>)),
             Field("Featured", TRUE, <<"featured", "omitempty">>, NilPtr),
             Field("Category", TRUE, <<"category", "omitempty">>, Slice("int", category)),
             Field("Tag", TRUE, <<"tag", "omitempty">>, Slice("int", <<>>)),
             Field("MinPrice", TRUE, <<"min_price", "omitempty">>, NilPtr),
             Field("MaxPrice", TRUE, <<"max_price", "omitempty">>, NilPtr),
             Field("StockStatus", TRUE, <<"stock_status", "omitempty">>, Str(<<>>)),
             Field("SKU", TRUE, <<"sku", "omitempty">>, Str(<<>>))>>)

\* the RequestOptions of products.Service.List(ctx, params)
ListOptions(params) == RequestOptions("GET", params, NoBody, NoHeaders)

\* The construction of the request: one call on a client with valid basic
\* credentials or a valid bearer token, whose base URL parses or not,
\* against a transport that answers 200 or 500.  The call is either a list
\* operation with its parameters (pages up to MaxPage), a call with another
\* query object, or a call with a body, a method and headers of the caller.
MaxPage == 2
MaxRequestRetries == 2
RequestRetryCounts == (0 - 1)..MaxRequestRetries
BaseURLs == {"https://example.com", "://missing-scheme"}
UnsupportedQueries ==
    {Str(<<"a">>), NilPtr,
     Struct(<<Field("Filter", TRUE, <<"filter">>, Map(1))>>),
     Struct(<<Field("Filter", TRUE, <<"filter">>, Map(0))>>),
     Struct(<<Field("IDs", TRUE, <<"ids", "omitempty">>, Slice("bool", <<TRUE>>))>>),
     Ptr(Struct(<<Field("Name", TRUE, <<"name">>, Str(<<"a">>)),
                  Field("Meta", TRUE, <<"meta">>, Struct(<<>>))>>))}
\* fields whose names are not in order and need escaping, as their values do
EscapedQueries ==
    {Struct(<<Field("SortBy", TRUE, <<"sort by">>, Str(<<"a", " ", "&", "b">>)),
              Field("Page", TRUE, <<"page">>, IntVal(2)),
              Field("Category", TRUE, <<"category">>, Slice("int", <<15, 23>>))>>)}
SkippedQueries ==
    {Struct(<<Field("Filter", TRUE, <<"filter", "omitempty">>, Map(0))>>),
     Struct(<<Field("Filter", TRUE, <<"-">>, Map(1))>>),
     Struct(<<Field("filter", FALSE, <<"filter">>, Map(1))>>)}
ListQueries ==
    {Ptr(ProductListParams(page, perPage, category)) :
        page \in 0..MaxPage, perPage \in {0, 10}, category \in {<<>>, <<15, 23>>}}
Bodies == {NoBody, Body(TRUE), Body(FALSE)}
Methods == {"GET", "POST", "BAD METHOD"}
CallerValue ==
    [k \in {"Authorization", "authorization", "Accept", "Content-Type", "X-Trace"} |->
        CASE k = "Authorization" -> "Bearer caller"
          [] k = "authorization" -> "Basic caller"
          [] k = "Accept" -> "text/plain"
          [] k = "Content-Type" -> "text/xml"
          [] OTHER -> "1"]
CallerHeaders == {[k \in keys |-> CallerValue[k]] : keys \in SUBSET DOMAIN CallerValue}

InitRequest ==
    /\ InitLocals({1})
    /\ baseURL \in BaseURLs
    /\ config = Unrecorded
    /\ built = ClientBuilt
    /\ opts \in [{1} -> {ListOptions(q) :
                             q \in UnsupportedQueries \cup SkippedQueries \cup ListQueries
                                  \cup EscapedQueries}
                          \cup {RequestOptions(m, NilQuery, b, h) :
                                   m \in Methods, b \in Bodies, h \in CallerHeaders}]
    /\ api = [c \in {1} |-> "MakeRequest"]
    /\ pc = [c \in {1} |-> "call"]
    /\ now = StartTime
    /\ retryConfig \in {NewRetryConfig(n) : n \in RequestRetryCounts}
    /\ auth \in {BasicOK, NewJWTAuth(1, now + TokenLifetime)}
    /\ transport \in [{1} -> {Always(Answer(200, BodyEmptyObject)),
                              Always(Answer(500, BodyEmptyObject))}]
    /\ ctxDone = [c \in {1} |-> FALSE]

NextRequest ==
    \/ \E c \in calls : Call(c)
    \/ \E c \in calls : StartAttempt(c)
    \/ \E c \in calls : Authenticate(c)
    \/ \E c \in calls : IsValidToken(c)
    \/ \E c \in calls : IsValidZero(c)
    \/ \E c \in calls : IsValidBefore(c)
    \/ \E c \in calls : SetHeader(c)
    \/ \E c \in calls : Do(c)
    \/ \E c \in calls : WaitElapsed(c)
    \/ \E c \in calls : WaitCancelled(c)
    \/ \E c \in calls : Cancel(c)

SpecRequest == InitRequest /\ [][NextRequest]_vars

\* fmt.Errorf("...: %w", err): an error of no package type that wraps err
Wrap(text, err) == [kind |-> "wrapError", text |-> text, Err |-> err]

\* a nil pointer dereference
NilDereference == [kind |-> "panic", text |-> "nil pointer dereference"]

\* utils.ParseJSON(resp.Body, &product): nil for a body without bytes,
\* otherwise the error of json.Unmarshal into the struct
ParseJSON(body) ==
    IF body.form = "empty" THEN NoError
    ELSE IF body.form = "array" THEN Errorf("cannot unmarshal array")
    ELSE IF body.form = "object" THEN NoError
    ELSE Errorf("invalid character")

\* The error products.Service.Get returns when s.client.MakeRequest has
\* returned (resp, err); with a nil resp and a nil err, resp.Body panics.
GetReturns(resp, err) ==
    IF err # NoError THEN Wrap("failed to get product", err)
    ELSE IF resp = NoResponse THEN NilDereference
    ELSE IF ParseJSON(resp.Body) # NoError
    THEN Wrap("failed to parse response", ParseJSON(resp.Body))
    ELSE NoError

\* products.Service.Get after s.client.MakeRequest has returned
ServiceReturn(c) ==
    /\ pc[c] = "done"
    /\ api[c] = "Products.Get"
    /\ opErr' = [opErr EXCEPT ![c] = GetReturns(lastResponse[c], result[c])]
    /\ pc' = [pc EXCEPT ![c] = "returned"]
    /\ UNCHANGED <<calls, oldAuth, holds, app, baseURL, config, built, opts, request, api, cancelledAt,
                   retryConfig, auth, now, transport, ctxDone, ctxAtStart, attempt,
                   lastErr, lastResponse, result, pending, req, attachValid, errs,
                   delays, exchanges, sentAuth, authCalls, refreshCalls, issued>>

\* Products.Get: one call of the resource operation on a client with basic
\* credentials, valid or empty, against a transport that answers with a
\* success or with an error status and any kind of body, or fails.
ServiceRetryCounts == {0 - 1, 0, 1}
ServiceScripts ==
    {Always(Answer(s, b)) : s \in {200} \cup ErrorStatuses,
                            b \in ErrorBodies \cup {BodyArray, BodyEmpty, BodyUnreadable}}
        \cup {Always(TransportFailure)}

InitService ==
    /\ InitLocals({1})
    /\ InitClient
    /\ opts = [c \in {1} |-> PlainOptions]
    /\ api = [c \in {1} |-> "Products.Get"]
    /\ pc = [c \in {1} |-> "call"]
    /\ now = StartTime
    /\ retryConfig \in {NewRetryConfig(n) : n \in ServiceRetryCounts}
    /\ auth \in {BasicOK, NewBasicAuth("", "")}
    /\ transport \in [{1} -> ServiceScripts]
    /\ ctxDone = [c \in {1} |-> FALSE]

NextService ==
    \/ \E c \in calls : Call(c)
    \/ \E c \in calls : StartAttempt(c)
    \/ \E c \in calls : Authenticate(c)
    \/ \E c \in calls : Do(c)
    \/ \E c \in calls : WaitElapsed(c)
    \/ \E c \in calls : WaitCancelled(c)
    \/ \E c \in calls : Cancel(c)
    \/ \E c \in calls : ServiceReturn(c)

SpecService == InitService /\ [][NextService]_vars

---------------------------------------------------------------------------
(* NewClient and the ClientBuilder *)

\* auth.Config and client.Config: the fields NewClient reads
AuthConfig(type, username, password, token) ==
    [Type |-> type, Username |-> username, Password |-> password, Token |-> token]
Config(url, retryCount, authConfig) ==
    [nil |-> FALSE, BaseURL |-> url, RetryCount |-> retryCount, Auth |-> authConfig]
NilConfig == [nil |-> TRUE]

DefaultRetryCount == 3
\* DefaultConfig(): no base URL and the zero auth.Config
DefaultConfig == Config("", DefaultRetryCount, AuthConfig("", "", "", NoToken))


\* NewAuthenticator accepting basic credentials without password
NewAuthenticatorUsernameOnly(authConfig) ==
    CASE authConfig.Type = "basic" ->
            IF authConfig.Username = ""
            THEN [err |-> Errorf("username and password are required for basic auth"),
                  auth |-> NilAuthenticator]
            ELSE [err |-> NoError,
                  auth |-> NewBasicAuth(authConfig.Username, authConfig.Password)]
      [] authConfig.Type = "jwt" ->
            IF authConfig.Token = NoToken
            THEN [err |-> Errorf("token is required for JWT auth"), auth |-> NilAuthenticator]
            ELSE [err |-> NoError, auth |-> NewJWTAuth(authConfig.Token, ZeroTime)]
      [] OTHER -> [err |-> Errorf("unsupported auth type"), auth |-> NilAuthenticator]

\* auth.NewAuthenticator(config)
NewAuthenticator(authConfig) ==
    CASE authConfig.Type = "basic" ->
            IF authConfig.Username = "" \/ authConfig.Password = ""
            THEN [err |-> Errorf("username and password are required for basic auth"),
                  auth |-> NilAuthenticator]
            ELSE [err |-> NoError,
                  auth |-> NewBasicAuth(authConfig.Username, authConfig.Password)]
      [] authConfig.Type = "jwt" ->
            IF authConfig.Token = NoToken
            THEN [err |-> Errorf("token is required for JWT auth"), auth |-> NilAuthenticator]
            ELSE [err |-> NoError, auth |-> NewJWTAuth(authConfig.Token, ZeroTime)]
      [] OTHER -> [err |-> Errorf("unsupported auth type"), auth |-> NilAuthenticator]

NotBuilt == [kind |-> "none"]
BuildFailed(err) == [kind |-> "error", err |-> err]

\* the zero utils.RetryConfig
ZeroRetryConfig == [MaxRetries |-> 0, BaseDelay |-> 0, MaxDelay |-> 0, Multiplier |-> 0]

\* NewClient(config), which ClientBuilder.Build calls with the builder's
\* config: a nil config is replaced by DefaultConfig(), the base URL must
\* not be empty and NewAuthenticator must accept config.Auth.
NewClient ==
    /\ built = NotBuilt
    /\ LET cfg == IF config.nil THEN DefaultConfig ELSE config
           made == NewAuthenticator(cfg.Auth)
       IN  IF cfg.BaseURL = ""
           THEN /\ built' = BuildFailed(Errorf("base URL is required"))
                /\ UNCHANGED <<baseURL, auth, retryConfig>>
           ELSE IF made.err # NoError
           THEN /\ built' = BuildFailed(Wrap("failed to create authenticator", made.err))
                /\ UNCHANGED <<baseURL, auth, retryConfig>>
           ELSE /\ built' = ClientBuilt
                /\ baseURL' = cfg.BaseURL
                /\ auth' = made.auth
                /\ retryConfig' = NewRetryConfig(cfg.RetryCount)
    /\ UNCHANGED <<calls, oldAuth, holds, app, config, opts, request, opErr, api, cancelledAt, now,
                   transport, ctxDone, ctxAtStart, pc, attempt, lastErr, lastResponse,
                   result, pending, req, attachValid, errs, delays, exchanges,
                   sentAuth, authCalls, refreshCalls, issued>>

\* a setter of the ClientBuilder replaces the builder's config by cfg
BuilderSets(cfg) ==
    /\ built = NotBuilt
    /\ ~config.nil
    /\ config' = cfg
    /\ UNCHANGED <<calls, oldAuth, holds, app, baseURL, built, opts, request, opErr, api, cancelledAt,
                   retryConfig, auth, now, transport, ctxDone, ctxAtStart, pc, attempt,
                   lastErr, lastResponse, result, pending, req, attachValid, errs,
                   delays, exchanges, sentAuth, authCalls, refreshCalls, issued>>

\* the values the configuration is drawn from
ConfigURLs == {"", "https://example.com", "://missing-scheme"}
ConfigTypes == {"", "basic", "jwt", "oauth"}
ConfigNames == {"", "user"}
ConfigPasswords == {"", "pass"}
ConfigTokens == {NoToken, 1}
AuthConfigs ==
    {AuthConfig(type, username, password, token) :
        type \in ConfigTypes, username \in ConfigNames, password \in ConfigPasswords,
        token \in ConfigTokens}
Configs ==
    {Config(url, n, authConfig) : url \in ConfigURLs, n \in RetryCounts,
                                  authConfig \in AuthConfigs}

\* ClientBuilder.BaseURL(url)
BuilderBaseURL == \E url \in ConfigURLs : BuilderSets([config EXCEPT !.BaseURL = url])
\* ClientBuilder.RetryCount(count)
BuilderRetryCount == \E n \in RetryCounts : BuilderSets([config EXCEPT !.RetryCount = n])
\* ClientBuilder.BasicAuth(username, password)
BuilderBasicAuth ==
    \E username \in ConfigNames, password \in ConfigPasswords :
        BuilderSets([config EXCEPT !.Auth = AuthConfig("basic", username, password, NoToken)])
\* ClientBuilder.JWTAuth(token)
BuilderJWTAuth ==
    \E token \in ConfigTokens :
        BuilderSets([config EXCEPT !.Auth = AuthConfig("jwt", "", "", token)])

\* Construction: NewClient is given nil, DefaultConfig() or any Config
\* literal, possibly after setters of a ClientBuilder; no call is made.
InitBuild ==
    /\ InitLocals({})
    /\ config \in Configs \cup {DefaultConfig, NilConfig}
    /\ built = NotBuilt
    /\ baseURL = ""
    /\ auth = NilAuthenticator
    /\ retryConfig = ZeroRetryConfig
    /\ opts = [c \in {} |-> PlainOptions]
    /\ api = [c \in {} |-> "MakeRequest"]
    /\ pc = [c \in {} |-> "call"]
    /\ now = StartTime
    /\ transport = [c \in {} |-> Always(TransportFailure)]
    /\ ctxDone = [c \in {} |-> FALSE]

NextBuild ==
    \/ NewClient
    \/ BuilderBaseURL
    \/ BuilderRetryCount
    \/ BuilderBasicAuth
    \/ BuilderJWTAuth

SpecBuild == InitBuild /\ [][NextBuild]_vars

\* The static credential: one call on a client holding any BasicAuth (each
\* part empty or not), with or without Authorization headers of the caller,
\* or one direct call of BasicAuth.Refresh by the application.
BasicAuths == {NewBasicAuth(u, p) : u \in {"", "a", "user"}, p \in {"", "ab", "pass"}}
BasicRetryCounts == {0, 1}

InitBasic ==
    /\ InitLocals({1})
    /\ InitClient
    /\ opts \in [{1} -> {RequestOptions("GET", NilQuery, NoBody, h) : h \in CallerHeaders}]
    /\ api \in [{1} -> {"MakeRequest", "Refresh"}]
    /\ pc = [c \in {1} |-> IF api[c] = "Refresh" THEN "refresh" ELSE "call"]
    /\ now = StartTime
    /\ retryConfig \in {NewRetryConfig(n) : n \in BasicRetryCounts}
    /\ auth \in BasicAuths
    /\ transport \in [{1} -> {Always(Answer(200, BodyEmptyObject)),
                              Always(Answer(401, BodyEmptyObject))}]
    /\ ctxDone = [c \in {1} |-> FALSE]

NextBasic ==
    \/ \E c \in calls : Call(c)
    \/ \E c \in calls : StartAttempt(c)
    \/ \E c \in calls : Authenticate(c)
    \/ \E c \in calls : Refresh(c)
    \/ \E c \in calls : Do(c)
    \/ \E c \in calls : WaitElapsed(c)
    \/ \E c \in calls : WaitCancelled(c)
    \/ \E c \in calls : Cancel(c)

SpecBasic == InitBasic /\ [][NextBasic]_vars

---------------------------------------------------------------------------
(* StructToURLValues on its own *)

\* StructToURLValues(opts.Query) called by itself: the url.Values it returns
\* are kept as the values of the request, its error as the result
Flatten(c) ==
    /\ pc[c] = "call"
    /\ api[c] = "StructToURLValues"
    /\ request' = [request EXCEPT ![c].values = StructToURLValues(opts[c].Query).values]
    /\ result' = [result EXCEPT ![c] = StructToURLValues(opts[c].Query).err]
    /\ pc' = [pc EXCEPT ![c] = "done"]
    /\ UNCHANGED <<calls, oldAuth, holds, app, baseURL, config, built, opts, opErr, api, cancelledAt,
                   retryConfig, auth, now, transport, ctxDone, ctxAtStart, attempt,
                   lastErr, lastResponse, pending, req, attachValid, errs, delays,
                   exchanges, sentAuth, authCalls, refreshCalls, issued>>

\* Query objects: structs of up to MaxFields fields.  The field at position
\* i has the i-th Go name, is exported or not, has no `url` tag, the tag "-"
\* or the i-th tag name with or without omitempty, and holds a zero or
\* non-zero value of a supported or unsupported type.
MaxFields == 2
GoNames == <<"A", "B", "C">>
TagNames == <<"a", "b", "c">>
FieldValues ==
    {Str(<<>>), Str(<<"a">>), IntVal(0), IntVal(15), IntVal(0 - 120), Bool(FALSE),
     Bool(TRUE), Slice("int", <<>>), Slice("int", <<15, 23>>), Slice("string", <<<<>>>>),
     Slice("string", <<<<"a">>, <<"b">>>>), Slice("bool", <<TRUE>>), Map(0), Map(1),
     NilPtr, Ptr(IntVal(7)), Ptr(Str(<<>>))}
\* a field without its position: exported or not, the form of its tag and
\* its value
FieldShapes ==
    [exported : {TRUE}, tag : {"none", "-", "name", "name,omitempty"}, value : FieldValues]
        \cup [exported : {FALSE}, tag : {"name"}, value : {IntVal(15), Map(1)}]
TagAt(i, tag) ==
    CASE tag = "none" -> <<"">>
      [] tag = "-" -> <<"-">>
      [] tag = "name" -> <<TagNames[i]>>
      [] tag = "name,omitempty" -> <<TagNames[i], "omitempty">>
\* the struct whose i-th field has the i-th shape
StructOf(shapes) ==
    Struct([i \in 1..Len(shapes) |->
                Field(GoNames[i], shapes[i].exported, TagAt(i, shapes[i].tag),
                      shapes[i].value)])
OtherQueries == {NilQuery, NilPtr, Str(<<"a">>), IntVal(15)}

InitFlatten ==
    /\ InitLocals({1})
    /\ InitClient
    /\ \E n \in 0..MaxFields : \E shapes \in [1..n -> FieldShapes] :
          \E q \in (IF n = 1 THEN {StructOf(shapes), Ptr(StructOf(shapes))}
                    ELSE IF n = 0 THEN {StructOf(shapes)} \cup OtherQueries
                    ELSE {StructOf(shapes)}) :
              opts = [c \in {1} |-> ListOptions(q)]
    /\ api = [c \in {1} |-> "StructToURLValues"]
    /\ pc = [c \in {1} |-> "call"]
    /\ now = StartTime
    /\ retryConfig = NewRetryConfig(0)
    /\ auth = BasicOK
    /\ transport = [c \in {1} |-> Always(Answer(200, BodyEmptyObject))]
    /\ ctxDone = [c \in {1} |-> FALSE]

NextFlatten == \E c \in calls : Flatten(c)

SpecFlatten == InitFlatten /\ [][NextFlatten]_vars

---------------------------------------------------------------------------
(* Vocabulary of the properties *)

MaxRetries == retryConfig.MaxRetries
Returned(c) == pc[c] = "done"
Attempts(c) == Len(errs[c])
Waits(c) == Len(delays[c])
LastAttemptErr(c) == errs[c][Len(errs[c])]
EveryAttempt(c, P(_)) == \A i \in 1..Len(errs[c]) : P(errs[c][i])

\* the errors WithRetry treats as transient in the sense of the specification
IsNetworkOrServerError(e) ==
    \/ e.kind = "NetworkError"
    \/ IsDokanError(e) /\ e.StatusCode >= 500
IsRateLimited(e) ==
    \/ IsDokanError(e) /\ e.StatusCode = 429
    \/ e.kind = "RateLimitError"
IsClientDokanError(e) ==
    IsDokanError(e) /\ e.StatusCode \in 400..499 /\ e.StatusCode # 429
IsAuthFailure(e) == e = DoError(AuthFailed)

---------------------------------------------------------------------------
(* C1 *)

\* the runs C1 is about: the call has returned, not by cancellation, and
\* every attempt failed with a network error or a 5xx DokanError
C1Case(c) ==
    /\ Returned(c)
    /\ MaxRetries >= 1
    /\ result[c] # CtxErr
    /\ EveryAttempt(c, IsNetworkOrServerError)

\* C1 as stated: with RetryCount(N), N >= 1, a unit of work that fails on
\* every attempt with a retryable error is attempted exactly N times and the
\* last attempt's error is returned.
C1_ExactlyNAttempts ==
    \A c \in calls :
        C1Case(c) => Attempts(c) = MaxRetries /\ result[c] = LastAttemptErr(c)

\* C1 amended: with RetryCount(N), N >= 1, such a unit of work is attempted
\* exactly N + 1 times (the first attempt and N retries) unless the context is
\* cancelled during a backoff wait, and the last attempt's error is returned.
C1_NPlusOneAttempts ==
    \A c \in calls :
        C1Case(c) => Attempts(c) = MaxRetries + 1 /\ result[c] = LastAttemptErr(c)

C1_Witness ==
    \E c \in calls :
        /\ C1Case(c)
        /\ MaxRetries = 3
        /\ Attempts(c) = 4
        /\ exchanges[c] = 4
        /\ result[c] = TransportError(FALSE)

---------------------------------------------------------------------------
(* C2 *)

\* C2: an attempt that fails with a DokanError whose status is in [400,500)
\* and is not 429 is the last attempt of the call: WithRetry has returned
\* that same error and no backoff wait followed the attempt, whatever the
\* budget.
C2_ClientErrorStops ==
    \A c \in calls : \A i \in 1..Attempts(c) :
        IsClientDokanError(errs[c][i]) =>
            /\ i = Attempts(c)
            /\ Returned(c)
            /\ result[c] = errs[c][i]
            /\ Waits(c) = i - 1

\* a call stopped by a 4xx DokanError on its second attempt with retries left
C2_Witness ==
    \E c \in calls :
        /\ Attempts(c) = 2
        /\ IsClientDokanError(errs[c][2])
        /\ MaxRetries >= 3
        /\ Returned(c)

---------------------------------------------------------------------------
(* C3 *)

Is4xxOtherThan429(statusCode) == statusCode \in 400..499 /\ statusCode # 429

\* C3: an HTTP exchange that ended with a 4xx status other than 429 is the
\* last exchange of Client.MakeRequest: the call has returned and no backoff
\* wait followed the exchange, also when the body carries no structured
\* payload (401, 403, 404 of the fallback table).
C3_Every4xxIsTerminal ==
    \A c \in calls :
        (~lastResponse[c].nil /\ Is4xxOtherThan429(lastResponse[c].StatusCode)) =>
            /\ Returned(c)
            /\ Waits(c) = Attempts(c) - 1

---------------------------------------------------------------------------
(* C4 *)

\* C4: when the Authenticator fails to attach credentials the call fails
\* fast: one attempt, at most one Authenticate (and one refresh), no backoff
\* wait, and the failure is returned.
C4_AuthFailureFailsFast ==
    \A c \in calls :
        (Attempts(c) >= 1 /\ IsAuthFailure(LastAttemptErr(c))) =>
            /\ Returned(c)
            /\ Attempts(c) = 1
            /\ authCalls[c] <= 1
            /\ refreshCalls[c] <= 1
            /\ Waits(c) = 0

---------------------------------------------------------------------------
(* C5 *)

\* the statements of Authenticate / Refresh between the IsValid check that
\* found the token invalid and the write of (token, expiresAt)
InRefresh(c) == pc[c] \in {"refresh", "wtoken", "wexpiry"}

\* C5: at most one call at a time is between the IsValid check and the write
\* of (token, expiry) of the shared bearer Authenticator.
C5_RefreshIsExclusive == Cardinality({c \in calls : InRefresh(c)}) <= 1

---------------------------------------------------------------------------
(* C6 *)

\* C6: every request handed to the transport with a Bearer Authorization
\* header carries a token for which IsValid held when the header was set.
C6_BearerTokenValidWhenAttached ==
    \A c \in calls : \A i \in 1..Len(sentAuth[c]) :
        sentAuth[c][i].header.scheme = "Bearer" => sentAuth[c][i].validAtAttach

---------------------------------------------------------------------------
(* C7 *)

\* WithRetry retries after err when at least one more iteration is left
RetriedAfter(err) == err # NoError /\ ~NonRetryable(err) /\ MaxRetries >= 1

\* C7 as stated: a call started with a cancelled context returns ctx.Err()
\* and no backoff delay elapses, for every retry policy (here: for every
\* policy that allows an attempt at all, MaxRetries >= 0).
C7_ReturnsCtxErr ==
    \A c \in calls :
        (Returned(c) /\ ctxAtStart[c] /\ MaxRetries >= 0) =>
            result[c] = CtxErr /\ Waits(c) = 0

\* C7 amended: for every retry policy, no backoff delay elapses in a call
\* started with a cancelled context.  WithRetry does not look at the context
\* before the first attempt: with MaxRetries >= 0 exactly one attempt is made,
\* and the call returns ctx.Err() if that attempt failed with an error that
\* WithRetry retries (MaxRetries >= 1), and that attempt's own result
\* otherwise (with MaxRetries = 0 the NetworkError of the cancelled exchange);
\* with MaxRetries < 0 no attempt is made and nil is returned.
C7_NoDelayAfterCancelledStart ==
    \A c \in calls :
        (Returned(c) /\ ctxAtStart[c]) =>
            /\ Waits(c) = 0
            /\ IF MaxRetries < 0
               THEN Attempts(c) = 0 /\ result[c] = NoError
               ELSE /\ Attempts(c) = 1
                    /\ result[c] = IF RetriedAfter(errs[c][1]) THEN CtxErr
                                   ELSE errs[c][1]

\* a call with retries left that was started cancelled and returned ctx.Err()
C7_Witness ==
    \E c \in calls :
        /\ Returned(c)
        /\ ctxAtStart[c]
        /\ MaxRetries >= 1
        /\ exchanges[c] = 1
        /\ result[c] = CtxErr

---------------------------------------------------------------------------
(* C8 *)

\* C8: once the context is cancelled while WithRetry is suspended in a
\* backoff wait, the wait never elapses and no further attempt is started:
\* the call is still at the select or has returned ctx.Err().
C8_CancelledWaitReturnsCtxErr ==
    \A c \in calls :
        cancelledAt[c] = "wait" =>
            /\ pc[c] \in {"wait", "done"}
            /\ Returned(c) => result[c] = CtxErr
            /\ Attempts(c) = attempt[c]
            /\ Waits(c) = attempt[c] - 1

\* a call cancelled in its second wait that returned ctx.Err(), not lastErr
C8_Witness ==
    \E c \in calls :
        /\ cancelledAt[c] = "wait"
        /\ Returned(c)
        /\ Attempts(c) = 2
        /\ Waits(c) = 1
        /\ lastErr[c] # CtxErr

---------------------------------------------------------------------------
(* C9 *)

\* the runs in which every attempt failed with status 429
C9Case(c) ==
    /\ Returned(c)
    /\ result[c] # CtxErr
    /\ Attempts(c) >= 1
    /\ EveryAttempt(c, IsRateLimited)

\* C9 as stated: with maxAttempts = 5 (RetryCount(5)) and a 429 on every
\* attempt exactly 5 attempts occur.
C9_FiveAttempts ==
    \A c \in calls : (C9Case(c) /\ MaxRetries = 5) => Attempts(c) = 5

\* C9 amended: a 429 failure (DokanError with StatusCode 429, or
\* RateLimitError) is retried whenever an iteration is left: a call whose last
\* attempt failed with 429 returns only by cancellation or after attempt
\* MaxRetries + 1, so with RetryCount(5) and a 429 on every attempt exactly 6
\* attempts occur.
C9_RateLimitIsRetried ==
    \A c \in calls :
        /\ (Attempts(c) >= 1 /\ IsRateLimited(LastAttemptErr(c)) /\ Returned(c)) =>
              result[c] = CtxErr \/ Attempts(c) = MaxRetries + 1
        /\ C9Case(c) => Attempts(c) = MaxRetries + 1 /\ Waits(c) = MaxRetries

\* RetryCount(5), six attempts that all failed with a structured 429
C9_Witness ==
    \E c \in calls :
        /\ C9Case(c)
        /\ MaxRetries = 5
        /\ Attempts(c) = 6
        /\ exchanges[c] = 6
        /\ IsDokanError(result[c])

---------------------------------------------------------------------------
(* C10 *)

\* the transport answered 429 to the first two exchanges and 200 to the third
C10Case(c) ==
    /\ Attempts(c) >= 3
    /\ exchanges[c] >= 3
    /\ IsRateLimited(errs[c][1])
    /\ IsRateLimited(errs[c][2])
    /\ errs[c][3] = NoError

\* C10: when the transport answers 429, 429, 200 the call returns success
\* (nil error and the 200 response) after exactly three attempts and exactly
\* two backoff waits, and nothing is attempted after the success.
C10_SucceedsOnThirdAttempt ==
    \A c \in calls :
        C10Case(c) =>
            /\ Returned(c)
            /\ result[c] = NoError
            /\ lastErr[c] = NoError
            /\ lastResponse[c] = Response(200, BodyEmptyObject)
            /\ Attempts(c) = 3
            /\ exchanges[c] = 3
            /\ Waits(c) = 2

\* RetryCount(3) (attempts to spare) and the 429, 429, 200 transport
C10_Witness ==
    \E c \in calls :
        /\ C10Case(c)
        /\ MaxRetries = 3
        /\ transport[c] = [pre |-> Answer(429, BodyEmptyObject), k |-> 2,
                           post |-> Answer(200, BodyEmptyObject)]
        /\ Returned(c)

---------------------------------------------------------------------------
(* C11 *)

\* C11: for every retry count a client can be built with, a call that has
\* returned made at least one attempt, and with RetryCount(0) exactly one.
C11_AtLeastOneAttempt ==
    \A c \in calls :
        Returned(c) =>
            /\ Attempts(c) >= 1
            /\ MaxRetries = 0 => Attempts(c) = 1

---------------------------------------------------------------------------
(* C12 *)

\* the attempts of call c in which Authenticate returned an error
AuthFailures(c) == {i \in 1..Attempts(c) : IsAuthFailure(errs[c][i])}

\* C12: an attempt in which Authenticate returned an error makes no HTTP
\* exchange: the exchanges of a call are as many as its attempts that did not
\* end in an authentication failure, every request handed to the transport
\* carries the Authorization header Authenticate set in that attempt, and
\* the call is about to invoke the transport only with such a header.
C12_NoExchangeAfterAuthError ==
    \A c \in calls :
        /\ exchanges[c] = Attempts(c) - Cardinality(AuthFailures(c))
        /\ \A i \in 1..Len(sentAuth[c]) : sentAuth[c][i].header # NoHeader
        /\ pc[c] = "do" => req[c] # NoHeader

\* three attempts that all failed in Authenticate, and no exchange at all
C12_Witness ==
    \E c \in calls :
        /\ Returned(c)
        /\ Attempts(c) = 3
        /\ Cardinality(AuthFailures(c)) = 3
        /\ authCalls[c] = 3
        /\ exchanges[c] = 0

---------------------------------------------------------------------------
(* C13 *)

\* C13: a call returns a NetworkError only when an HTTP exchange of the call
\* failed at the transport: a failure to attach credentials (no exchange
\* made) is never returned as a NetworkError.
C13_NetworkErrorOnlyFromTransport ==
    \A c \in calls :
        (Returned(c) /\ result[c].kind = "NetworkError") =>
            /\ exchanges[c] >= 1
            /\ ~IsAuthFailure(result[c])

---------------------------------------------------------------------------
(* C14 *)

\* the call has returned from an exchange that was answered
Answered(c) == Returned(c) /\ exchanges[c] = 1 /\ ~lastResponse[c].nil

\* the body parses as a structured payload with a non-empty code
HasCode(body) == body.json /\ body.code # ""

\* C14: when the answer has a status >= 400 and its body is not a structured
\* payload with a non-empty code, the error returned is the entry of the
\* fallback table: 401 and 403 give AuthenticationError, 404 NotFoundError,
\* 429 RateLimitError(60), 400 and 500 their DokanError, every other status
\* DokanError(http_error, status); a status below 400 gives no error.
C14_FallbackTable ==
    \A c \in calls :
        Answered(c) =>
            LET status == lastResponse[c].StatusCode
                e == result[c]
            IN  /\ status < 400 => e = NoError
                /\ (status >= 400 /\ ~HasCode(lastResponse[c].Body)) =>
                      /\ status = 401 =>
                            e = [kind |-> "AuthenticationError",
                                 Message |-> "unauthorized access"]
                      /\ status = 403 =>
                            e = [kind |-> "AuthenticationError",
                                 Message |-> "forbidden access"]
                      /\ status = 404 =>
                            e = [kind |-> "NotFoundError", Resource |-> "resource",
                                 ID |-> "unknown"]
                      /\ status = 429 => e = [kind |-> "RateLimitError", RetryAfter |-> 60]
                      /\ status = 400 =>
                            e = [kind |-> "DokanError", Code |-> "bad_request",
                                 Message |-> "bad request", StatusCode |-> 400]
                      /\ status = 500 =>
                            e = [kind |-> "DokanError", Code |-> "internal_error",
                                 Message |-> "internal server error", StatusCode |-> 500]
                      /\ status \notin {401, 403, 404, 429, 400, 500} =>
                            e = [kind |-> "DokanError", Code |-> "http_error",
                                 Message |-> <<"HTTP", status, "error">>,
                                 StatusCode |-> status]

\* a 503 whose JSON body has a message but no code: the default entry
C14_Witness ==
    \E c \in calls :
        /\ Answered(c)
        /\ lastResponse[c] = Response(503, BodyMessageOnly)
        /\ IsDokanError(result[c])
        /\ result[c].Code = "http_error"
        /\ result[c].StatusCode = 503

---------------------------------------------------------------------------
(* C15 *)

\* C15: when the answer has a status >= 400 (401, 403, 404 and 429 included)
\* and its body is a structured payload with a non-empty code, the error
\* returned is a DokanError with that code and message and with StatusCode
\* equal to the HTTP status, not the entry of the fallback table.
C15_StructuredPayloadWins ==
    \A c \in calls :
        (Answered(c) /\ lastResponse[c].StatusCode >= 400
                     /\ HasCode(lastResponse[c].Body)) =>
            result[c] = [kind |-> "DokanError",
                         Code |-> lastResponse[c].Body.code,
                         Message |-> lastResponse[c].Body.message,
                         StatusCode |-> lastResponse[c].StatusCode]

\* a structured 401: a DokanError, not the AuthenticationError of the table
C15_Witness ==
    \E c \in calls :
        /\ Answered(c)
        /\ lastResponse[c] = Response(401, BodyDokan)
        /\ result[c] = NewDokanError("rest_error", "server message", 401)
        /\ result[c] # HandleHTTPError(401)

---------------------------------------------------------------------------
(* C16 *)

\* call c is inside JWTAuth.Authenticate, past the check for an empty token
InAuthenticate(c) ==
    pc[c] \in {"check", "checkzero", "checkbefore", "refresh", "wtoken", "wexpiry",
              "recheck", "recheckzero", "recheckbefore", "header"}

\* C16: the protocol of JWTAuth.Authenticate, for one call at a time.
\* (1) With an empty token it fails at once: no refresh, no exchange.
\* (2) Refresh is entered only for an invalid token with a refresh function,
\*     once per Authenticate: the refresh function ran at most once per
\*     Authenticate, and once in each as long as the token is still invalid
\*     and a refresh is possible.
\* (3) It fails when the token is invalid with no refresh function, and when
\*     the token is still invalid after the refresh: the header is set, and
\*     the request sent, only with a token for which IsValid holds.
\* (4) Otherwise Authorization is "Bearer " + the stored token.
C16_AuthenticateProtocol ==
    \A c \in calls :
        api[c] = "MakeRequest" =>
            /\ auth.token = NoToken =>
                  /\ ~InAuthenticate(c) /\ pc[c] # "do"
                  /\ refreshCalls[c] = 0 /\ exchanges[c] = 0
                  /\ EveryAttempt(c, IsAuthFailure)
            /\ pc[c] = "refresh" =>
                  /\ ~JWTIsValid(auth, now) /\ auth.refreshFunc
                  /\ refreshCalls[c] = IF CanRefresh(auth) THEN authCalls[c] - 1 ELSE 0
            /\ refreshCalls[c] <= authCalls[c]
            /\ (~JWTIsValid(auth, now) /\ auth.token # NoToken /\ CanRefresh(auth)
                    /\ pc[c] \notin {"auth", "check", "checkzero", "checkbefore",
                                    "refresh"}) =>
                  refreshCalls[c] = authCalls[c]
            /\ (~JWTIsValid(auth, now) /\ ~auth.refreshFunc) =>
                  /\ pc[c] \notin {"refresh", "wtoken", "wexpiry", "header", "do"}
                  /\ refreshCalls[c] = 0 /\ exchanges[c] = 0
                  /\ EveryAttempt(c, IsAuthFailure)
            /\ pc[c] \in {"header", "do"} => JWTIsValid(auth, now)
            /\ pc[c] = "do" => req[c] = BearerHeader(auth.token)
            /\ \A i \in 1..Len(sentAuth[c]) :
                  sentAuth[c][i] = [header |-> BearerHeader(auth.token),
                                    validAtAttach |-> TRUE]

\* an expired token was refreshed once and the new token was sent
C16_Witness ==
    \E c \in calls :
        /\ api[c] = "MakeRequest"
        /\ Returned(c)
        /\ authCalls[c] = 1
        /\ refreshCalls[c] = 1
        /\ auth.token = 2
        /\ sentAuth[c] = <<[header |-> BearerHeader(2), validAtAttach |-> TRUE]>>
        /\ result[c] = NoError

---------------------------------------------------------------------------
(* C17 *)

\* a direct call of JWTAuth.Refresh that has returned
RefreshReturned(c) == api[c] = "Refresh" /\ Returned(c)

\* the application has called no setter
Undisturbed == app = AppIdle(MaxSetterCalls)

\* what JWTAuth.Refresh returned on an authenticator the application has not
\* touched, by what the authenticator is configured with and by what the
\* refresh function did
C17_RefreshOutcome ==
    \A c \in calls :
        (RefreshReturned(c) /\ Undisturbed /\ auth.type = "jwt") =>
            /\ ~auth.refreshFunc =>
                  /\ result[c] = Errorf("no refresh function provided")
                  /\ refreshCalls[c] = 0
            /\ (auth.refreshFunc /\ auth.refreshToken = "") =>
                  /\ result[c] = Errorf("no refresh token available")
                  /\ refreshCalls[c] = 0
            /\ (auth.refreshFunc /\ auth.refreshToken # "") =>
                  /\ refreshCalls[c] = 1
                  /\ result[c] \in {NoError, RefreshFuncErr}
            /\ result[c] # NoError => issued = 0 /\ auth.token \in {NoToken, 1}
            /\ result[c] = NoError => issued = 1 /\ auth.token = 2

\* the step in which a direct call of JWTAuth.Refresh passes or fails its
\* guards and calls the refresh function, whatever the setters have stored
\* before: it fails on the guards without calling the function, returns the
\* function's error, and stores nothing in either case
C17_RefreshStep ==
    \A c \in calls :
        (api[c] = "Refresh" /\ pc[c] = "refresh" /\ pc'[c] # "refresh"
                            /\ AuthOf(c).type = "jwt") =>
            /\ ~AuthOf(c).refreshFunc =>
                  /\ pc'[c] = "done"
                  /\ result'[c] = Errorf("no refresh function provided")
            /\ (AuthOf(c).refreshFunc /\ AuthOf(c).refreshToken = "") =>
                  /\ pc'[c] = "done"
                  /\ result'[c] = Errorf("no refresh token available")
            /\ refreshCalls'[c] =
                  IF AuthOf(c).refreshFunc /\ AuthOf(c).refreshToken # ""
                  THEN refreshCalls[c] + 1 ELSE refreshCalls[c]
            /\ pc'[c] = "done" =>
                  /\ result'[c] # NoError
                  /\ (AuthOf(c).refreshFunc /\ AuthOf(c).refreshToken # "") =>
                        result'[c] = RefreshFuncErr
            /\ auth' = auth /\ oldAuth' = oldAuth

\* a step that is not one of the application's setters changes the fields
\* of an authenticator only in the two assignments that end a Refresh whose
\* refresh function returned without error, made by a call that holds that
\* authenticator
C17_OnlyRefreshStores ==
    /\ (auth' # auth /\ app' = app) =>
          \E c \in calls :
              /\ holds[c] = "client"
              /\ pc[c] \in {"wtoken", "wexpiry"}
              /\ pc'[c] # pc[c]
              /\ refreshCalls[c] >= 1
              /\ auth' = IF pc[c] = "wtoken"
                         THEN [auth EXCEPT !.token = pending[c].token]
                         ELSE [auth EXCEPT !.expiresAt = pending[c].expiresAt]
    /\ (oldAuth' # oldAuth /\ app' = app) =>
          \E c \in calls :
              /\ holds[c] = "old"
              /\ pc[c] \in {"wtoken", "wexpiry"}
              /\ pc'[c] # pc[c]
              /\ refreshCalls[c] >= 1
              /\ oldAuth' = IF pc[c] = "wtoken"
                            THEN [oldAuth EXCEPT !.token = pending[c].token]
                            ELSE [oldAuth EXCEPT !.expiresAt = pending[c].expiresAt]

\* C17: JWTAuth.Refresh fails when no refresh function or no refresh token
\* is configured and returns the refresh function's error as it is; when it
\* fails the stored token and expiry are unchanged, and in the whole
\* pipeline (Authenticate, IsValid, the exchange, the retry loop) the stored
\* token and expiry change only through a Refresh that succeeded; the only
\* other writers are the setters JWTAuth.SetToken and Client.SetAuth, which
\* the application calls from outside the pipeline.
C17_OnlySuccessfulRefreshStores ==
    /\ []C17_RefreshOutcome
    /\ [][C17_RefreshStep]_vars
    /\ [][C17_OnlyRefreshStores]_vars

\* a Refresh whose refresh function failed, on an authenticator whose
\* refresh token the application had set before: its error returned, the
\* token kept
C17_Witness ==
    \E c \in calls :
        /\ RefreshReturned(c)
        /\ app = AppIdle(MaxSetterCalls - 1)
        /\ auth.type = "jwt"
        /\ refreshCalls[c] = 1
        /\ result[c] = RefreshFuncErr
        /\ auth.token = 1
        /\ issued = 0

---------------------------------------------------------------------------
(* C18 *)

\* the token is not empty, and its expiry is unset or more than 5 minutes
\* ahead of t
ValidBeyondMargin(a, t) ==
    /\ a.token # NoToken
    /\ a.expiresAt = ZeroTime \/ a.expiresAt - t > 5

\* C18: IsValid is true exactly when the token is not empty and no expiry is
\* set or now + 5 minutes is strictly before the expiry.  On a JWTAuth that
\* cannot refresh, a call reaches the transport exactly in that case: not
\* with a token that expires in 4 minutes, or in exactly 5, or that expired
\* already, or that is empty whatever its expiry; it does with one that
\* expires in 6 minutes.
C18_ValidExactlyBeyondMargin ==
    \A c \in calls :
        /\ JWTIsValid(auth, now) <=> ValidBeyondMargin(auth, now)
        /\ (api[c] = "MakeRequest" /\ ~auth.refreshFunc /\ Returned(c)) =>
              /\ exchanges[c] >= 1 <=> ValidBeyondMargin(auth, now)
              /\ auth.expiresAt \in {now - 1, now + 4, now + 5} => exchanges[c] = 0
              /\ auth.token = NoToken => exchanges[c] = 0
              /\ (auth.token # NoToken /\ auth.expiresAt = now + 6) => exchanges[c] >= 1

\* a token that expires in exactly 5 minutes was refused
C18_Witness ==
    \E c \in calls :
        /\ api[c] = "MakeRequest"
        /\ ~auth.refreshFunc
        /\ Returned(c)
        /\ auth.token = 1
        /\ auth.expiresAt = now + 5
        /\ authCalls[c] >= 1
        /\ exchanges[c] = 0

---------------------------------------------------------------------------
(* C19 *)

\* the client's policy: 1 s, 2.0, 30 s
IsClientPolicy == retryConfig = [retryConfig EXCEPT !.BaseDelay = 1, !.Multiplier = 2,
                                                    !.MaxDelay = 30]

\* C19: the first attempt is made with no delay and every later attempt
\* follows one wait; the n-th wait of a call (after n completed attempts)
\* lasts min(BaseDelay * n * Multiplier, MaxDelay), so the waits never
\* decrease and never exceed MaxDelay; under the client's policy they are
\* 2 s, 4 s, 6 s, ..., 30 s and stay at 30 s.
C19_BackoffSchedule ==
    \A c \in calls :
        /\ Attempts(c) <= Waits(c) + 1
        /\ Waits(c) <= Attempts(c)
        /\ (Attempts(c) = 0 /\ ~Returned(c)) => Waits(c) = 0
        /\ \A n \in 1..Waits(c) :
              LET product == retryConfig.BaseDelay * n * retryConfig.Multiplier IN
                /\ product <= retryConfig.MaxDelay => delays[c][n] = product
                /\ product > retryConfig.MaxDelay => delays[c][n] = retryConfig.MaxDelay
                /\ delays[c][n] <= retryConfig.MaxDelay
                /\ n > 1 => delays[c][n - 1] <= delays[c][n]
                /\ IsClientPolicy => delays[c][n] = IF n <= 15 THEN 2 * n ELSE 30

\* the client's policy after 17 waits: 2 s first, 30 s reached by the
\* product at the 15th and by the cap from the 16th on
C19_Witness ==
    \E c \in calls :
        /\ IsClientPolicy
        /\ Waits(c) = 17
        /\ Attempts(c) = 18
        /\ delays[c][1] = 2
        /\ delays[c][14] = 28
        /\ delays[c][15] = 30
        /\ delays[c][16] = 30
        /\ delays[c][17] = 30

---------------------------------------------------------------------------
(* C20 *)

\* C20: an invocation of utils.MakeRequest makes at most one HTTP exchange
\* and returns after it, so every further exchange of a call belongs to a
\* further attempt started by WithRetry after a backoff wait: the exchanges
\* of a call never exceed its attempts, its invocations of client.Do, its
\* waits plus one, or the MaxRetries + 1 iterations of the loop.
C20_OneExchangePerAttempt ==
    \A c \in calls :
        /\ exchanges[c] <= Attempts(c)
        /\ exchanges[c] <= authCalls[c]
        /\ exchanges[c] <= Waits(c) + 1
        /\ exchanges[c] <= MaxRetries + 1

\* two answers 500 and then 200: three exchanges in three attempts
C20_Witness ==
    \E c \in calls :
        /\ Returned(c)
        /\ transport[c] = [pre |-> Answer(500, BodyEmptyObject), k |-> 2,
                           post |-> Answer(200, BodyEmptyObject)]
        /\ exchanges[c] = 3
        /\ Attempts(c) = 3
        /\ Waits(c) = 2
        /\ result[c] = NoError

---------------------------------------------------------------------------
(* C21 *)

\* the errors the retry loop is meant to retry: network failures, 5xx, 429
IsTransient(e) == IsNetworkOrServerError(e) \/ IsRateLimited(e)

\* whether utils.MakeRequest fails in call c before it has a request
FailsLocally(c) == LocalError(baseURL, opts[c]) # NoError

\* C21: only a transient error is followed by a backoff wait and another
\* attempt, and a call whose request cannot be constructed (invalid base
\* URL, query that cannot be encoded, body that cannot be marshalled) makes
\* at most one attempt and never waits.
C21_LocalFailureNotRetried ==
    \A c \in calls :
        /\ \A i \in 1..Attempts(c) :
              (i < Attempts(c) \/ pc[c] = "wait") => IsTransient(errs[c][i])
        /\ FailsLocally(c) => Attempts(c) <= 1 /\ Waits(c) = 0 /\ pc[c] # "wait"

---------------------------------------------------------------------------
(* C22 *)

\* the query object of call c cannot be flattened: it is not a struct, or a
\* field that is converted has an unsupported type
QueryFails(c) ==
    /\ opts[c].Query # NilQuery
    /\ StructToURLValues(opts[c].Query).err # NoError

QueryError == Errorf("failed to encode query parameters")

\* C22: a call on a client with a well-formed base URL whose query object
\* cannot be flattened never invokes the Authenticator or the transport, and
\* when it has returned it has failed with the query serialization error.
C22_UnsupportedQueryFailsLocally ==
    \A c \in calls :
        QueryFails(c) /\ ParsesAsURL(baseURL) =>
            /\ authCalls[c] = 0
            /\ exchanges[c] = 0
            /\ Returned(c) => result[c] = QueryError

---------------------------------------------------------------------------
(* C23 *)

\* the error types of package errors
TypedKinds ==
    {"DokanError", "NotFoundError", "AuthenticationError", "RateLimitError",
     "NetworkError"}

\* the case a type switch on err selects: the dynamic type of err itself
TypeSwitch(err) == IF err.kind \in TypedKinds THEN err.kind ELSE "default"

\* Products.Get has returned to its caller in call c
OperationReturned(c) == pc[c] = "returned"

\* C23: when Client.MakeRequest failed with an error of one of the package's
\* types, Products.Get returns that error value itself, so that a type
\* switch on the returned error selects its type; for a 404 answer with
\* body {} the caller receives NotFoundError("resource", "unknown").
C23_TypedErrorReachesCaller ==
    \A c \in calls :
        OperationReturned(c) /\ result[c].kind \in TypedKinds =>
            /\ opErr[c] = result[c]
            /\ TypeSwitch(opErr[c]) = result[c].kind
            /\ (lastResponse[c] = Response(404, BodyEmptyObject) =>
                    opErr[c] = NewNotFoundError("resource", "unknown"))

---------------------------------------------------------------------------
(* C24 *)

\* the configuration names a base URL and complete credentials
Configured(cfg) ==
    /\ ~cfg.nil
    /\ cfg.BaseURL # ""
    /\ \/ cfg.Auth.Type = "basic" /\ cfg.Auth.Username # "" /\ cfg.Auth.Password # ""
       \/ cfg.Auth.Type = "jwt" /\ cfg.Auth.Token # NoToken

\* C24: once NewClient (or ClientBuilder.Build) has returned, it has
\* returned a client exactly when the configuration has a non-empty base URL
\* and either basic authentication with non-empty username and password or
\* JWT authentication with a non-empty token; otherwise it has returned an
\* error and no client exists.
C24_BuildSucceedsWhenConfigured ==
    built # NotBuilt =>
        /\ built = ClientBuilt <=> Configured(config)
        /\ built # ClientBuilt =>
              /\ built.kind = "error"
              /\ built.err # NoError
              /\ auth = NilAuthenticator
              /\ baseURL = ""
        /\ built = ClientBuilt =>
              /\ baseURL = config.BaseURL
              /\ auth # NilAuthenticator
              /\ IsValid(auth, now)

\* NewClient has returned a client that holds a bearer token or basic
\* credentials
C24_Witness ==
    /\ built = ClientBuilt
    /\ auth \in {NewJWTAuth(1, ZeroTime), BasicOK}

---------------------------------------------------------------------------
(* C25 *)

\* both parts of the credential are non-empty
Complete(a) == a.username # "" /\ a.password # ""

\* base64 of username:password as RFC 4648 gives it
ExpectedCredentials(a) ==
    CASE a.username = "a" /\ a.password = "ab" -> <<"Y", "T", "p", "h", "Y", "g", "=", "=">>
      [] a.username = "a" /\ a.password = "pass" -> <<"Y", "T", "p", "w", "Y", "X", "N", "z">>
      [] a.username = "user" /\ a.password = "ab" -> <<"d", "X", "N", "l", "c", "j", "p", "h", "Y", "g", "=", "=">>
      [] a.username = "user" /\ a.password = "pass" -> <<"d", "X", "N", "l", "c", "j", "p", "w", "Y", "X", "N", "z">>

ExpectedBasicHeader(a) == [scheme |-> "Basic", credentials |-> ExpectedCredentials(a)]

\* IsValid is the non-empty check; with a complete credential no attempt
\* fails in Authenticate and every request handed to the transport carries
\* "Basic " + base64(username:password); with an incomplete one every attempt
\* fails in Authenticate and nothing is sent; Refresh returns nil.
C25_BasicOutcome ==
    \A c \in calls :
        /\ IsValid(auth, now) <=> Complete(auth)
        /\ Complete(auth) =>
              /\ AuthFailures(c) = {}
              /\ pc[c] = "do" => req[c] = ExpectedBasicHeader(auth)
              /\ \A i \in 1..Len(sentAuth[c]) :
                    sentAuth[c][i].header = ExpectedBasicHeader(auth)
        /\ ~Complete(auth) =>
              /\ AuthFailures(c) = 1..Attempts(c)
              /\ exchanges[c] = 0
              /\ pc[c] # "do"
        /\ api[c] = "Refresh" /\ Returned(c) => result[c] = NoError

\* a failing Authenticate leaves the request as it was, and Refresh returns
\* at once and changes neither the credential nor any request
C25_BasicStep ==
    \A c \in calls :
        /\ auth' = auth
        /\ pc[c] = "auth" /\ pc'[c] # "auth" /\ ~Complete(auth) =>
              req'[c] = req[c] /\ request' = request
        /\ pc[c] = "refresh" /\ pc'[c] # "refresh" =>
              /\ pc'[c] = "done"
              /\ req' = req
              /\ request' = request
              /\ refreshCalls' = refreshCalls

\* C25: BasicAuth.Authenticate succeeds and sets Authorization to "Basic " +
\* base64(username:password) exactly when username and password are both
\* non-empty and otherwise fails leaving the request untouched; IsValid is
\* true exactly when both are non-empty; Refresh always succeeds and changes
\* nothing.
C25_BasicCredential == []C25_BasicOutcome /\ [][C25_BasicStep]_vars

\* a request with the header of user:pass was sent although the caller had
\* supplied an Authorization header of its own
C25_Witness ==
    \E c \in calls :
        /\ auth = NewBasicAuth("user", "pass")
        /\ "Authorization" \in DOMAIN opts[c].Headers
        /\ Len(sentAuth[c]) >= 1
        /\ sentAuth[c][1].header = ExpectedBasicHeader(auth)

---------------------------------------------------------------------------
(* C26 *)

\* the struct whose fields are flattened: the query object or what it
\* points to
QueryStruct(q) == IF q.kind = "ptr" /\ ~q.isNil THEN q.target ELSE q

\* the zero values of the types
ZeroValues ==
    {Str(<<>>), IntVal(0), Bool(FALSE), Slice("int", <<>>), Slice("string", <<>>),
     Map(0), NilPtr}

\* the values of the types StructToURLValues converts, and the text each
\* stands for in a query string
Texts ==
    {<<Str(<<>>), <<>>>>, <<Str(<<"a">>), <<"a">>>>,
     <<IntVal(0), <<"0">>>>, <<IntVal(15), <<"1", "5">>>>,
     <<IntVal(0 - 120), <<"-", "1", "2", "0">>>>,
     <<Bool(FALSE), <<"f", "a", "l", "s", "e">>>>, <<Bool(TRUE), <<"t", "r", "u", "e">>>>,
     <<Slice("int", <<>>), <<>>>>, <<Slice("int", <<15, 23>>), <<"1", "5", ",", "2", "3">>>>,
     <<Slice("string", <<<<>>>>), <<>>>>,
     <<Slice("string", <<<<"a">>, <<"b">>>>), <<"a", ",", "b">>>>,
     <<NilPtr, <<>>>>, <<Ptr(IntVal(7)), <<"7">>>>, <<Ptr(Str(<<>>)), <<>>>>}
Supported(v) == \E t \in Texts : t[1] = v
TextOf(v) == (CHOOSE t \in Texts : t[1] = v)[2]

\* the field is exported and its `url` tag names a parameter
Tagged(f) == f.exported /\ f.tag # <<"">> /\ f.tag # <<"-">>
\* the field is tagged and not left out as an empty omitempty field
Converts(f) == Tagged(f) /\ ~(f.tag[Len(f.tag)] = "omitempty" /\ f.value \in ZeroValues)

\* the parameters of the values that have the name of field f
ParamsOf(values, f) == SelectSeq(values, LAMBDA p : p.name = f.tag[1])

\* StructToURLValues has returned without error for a struct in call c
Flattened(c) ==
    /\ api[c] = "StructToURLValues"
    /\ Returned(c)
    /\ result[c] = NoError
    /\ QueryStruct(opts[c].Query).kind = "struct"

\* C26 as stated: a tagged omitempty field holding the zero value of its
\* type gives no parameter, and every tagged field holding a non-zero value
\* gives exactly one parameter under its tag name, whose value is the text
\* of the field (slices joined with commas, pointers dereferenced).
C26_NonZeroFieldGivesParameter ==
    \A c \in calls :
        Flattened(c) =>
            \A i \in 1..Len(QueryStruct(opts[c].Query).fields) :
                LET f == QueryStruct(opts[c].Query).fields[i] IN
                    Tagged(f) =>
                        /\ (f.tag[Len(f.tag)] = "omitempty" /\ f.value \in ZeroValues =>
                                ParamsOf(request[c].values, f) = <<>>)
                        /\ (f.value \notin ZeroValues =>
                                ParamsOf(request[c].values, f)
                                    = <<[name |-> f.tag[1], value |-> TextOf(f.value)]>>)

\* C26: StructToURLValues fails exactly when the query is not a struct (or
\* pointer to one) or a field that is converted has an unsupported type;
\* otherwise a tagged omitempty field holding the zero value of its type
\* gives no parameter, and every other tagged field gives exactly one
\* parameter under its tag name when its text is not empty and none when it
\* is; the text of a slice of ints or strings is its elements joined with
\* commas in order, the text of a non-nil pointer that of what it points to.
C26_Flattening ==
    \A c \in calls :
        api[c] = "StructToURLValues" /\ Returned(c) /\ opts[c].Query # NilQuery =>
            LET q == QueryStruct(opts[c].Query) IN
                /\ result[c] = NoError <=>
                      /\ q.kind = "struct"
                      /\ \A i \in 1..Len(q.fields) :
                            Converts(q.fields[i]) => Supported(q.fields[i].value)
                /\ Flattened(c) =>
                      /\ \A i \in 1..Len(q.fields) :
                            LET f == q.fields[i] IN
                                Tagged(f) =>
                                    ParamsOf(request[c].values, f) =
                                        IF Converts(f) /\ TextOf(f.value) # <<>>
                                        THEN <<[name |-> f.tag[1], value |-> TextOf(f.value)]>>
                                        ELSE <<>>
                      /\ \A n \in 1..Len(request[c].values) :
                            \E i \in 1..Len(q.fields) :
                                /\ Tagged(q.fields[i])
                                /\ request[c].values[n].name = q.fields[i].tag[1]

\* category [15, 23] next to an omitempty field holding 0: the only
\* parameter is "15,23"
C26_Witness ==
    \E c \in calls :
        /\ Flattened(c)
        /\ opts[c].Query =
              Struct(<<Field("A", TRUE, <<"a", "omitempty">>, IntVal(0)),
                       Field("B", TRUE, <<"b", "omitempty">>, Slice("int", <<15, 23>>))>>)
        /\ request[c].values = <<[name |-> "b", value |-> <<"1", "5", ",", "2", "3">>]>>

---------------------------------------------------------------------------
(* C27 *)

\* header names are compared without regard to case
SameHeaderName(key, name) ==
    \/ key = name
    \/ key = "authorization" /\ name = "Authorization"

\* the values the caller of call c supplied for header `name`
CallerSupplied(c, name) ==
    {opts[c].Headers[k] : k \in {h \in DOMAIN opts[c].Headers : SameHeaderName(h, name)}}

\* the value header `name` must have when it is `value` without the caller
Precedence(c, name, value, actual) ==
    IF CallerSupplied(c, name) = {} THEN actual = value
    ELSE actual \in CallerSupplied(c, name)

\* the Authorization header the authenticator of the client attaches
AuthenticatorHeader == IF auth.type = "basic" THEN BasicHeader(auth) ELSE BearerHeader(auth.token)

\* C27: a request that has been constructed carries Content-Type:
\* application/json exactly when a body is present and Accept:
\* application/json, each replaced by the caller's header of that name if
\* there is one; the request handed to the transport carries the
\* Authorization header of the Authenticator, never one of the caller.
C27_HeaderPrecedence ==
    \A c \in calls :
        /\ request[c] # NoRequest =>
              /\ Precedence(c, "Content-Type",
                            IF opts[c].Body.nil THEN "" ELSE "application/json",
                            request[c].contentType)
              /\ Precedence(c, "Accept", "application/json", request[c].accept)
        /\ pc[c] = "auth" =>
              /\ request[c] # NoRequest
              /\ IF CallerSupplied(c, "Authorization") = {} THEN req[c] = NoHeader
                 ELSE req[c].scheme = "caller"
                        /\ req[c].value \in CallerSupplied(c, "Authorization")
        /\ pc[c] = "do" => request[c] # NoRequest /\ req[c] = AuthenticatorHeader
        /\ \A i \in 1..Len(sentAuth[c]) : sentAuth[c][i].header = AuthenticatorHeader
        /\ exchanges[c] = Len(sentAuth[c])

\* a POST with a body was sent for a caller who supplied Content-Type and
\* Authorization headers: it went out as text/xml with the client's
\* credentials
C27_Witness ==
    \E c \in calls :
        /\ ~opts[c].Body.nil
        /\ {"Content-Type", "Authorization", "authorization"} \subseteq DOMAIN opts[c].Headers
        /\ "Accept" \notin DOMAIN opts[c].Headers
        /\ exchanges[c] = 1
        /\ Returned(c)
        /\ request[c].contentType = "text/xml"
        /\ request[c].accept = "application/json"
        /\ sentAuth[c][1].header = BasicHeader(BasicOK)

---------------------------------------------------------------------------
(* C28 *)

\* C28: when Client.MakeRequest has returned a nil error, the response it
\* returned is not nil, is the response the last attempt received, and has a
\* status below 400.
C28_NilErrorMeansResponse ==
    \A c \in calls :
        Returned(c) /\ result[c] = NoError =>
            /\ lastResponse[c] # NoResponse
            /\ lastResponse[c].StatusCode < 400
            /\ Attempts(c) >= 1
            /\ LastAttemptErr(c) = NoError
            /\ exchanges[c] >= 1
            /\ LET answer == ScriptAnswer(transport[c], exchanges[c]) IN
                  lastResponse[c] = Response(answer.StatusCode, answer.Body)

---------------------------------------------------------------------------
(* C29 *)

\* call c is a list operation with parameters
IsListCall(c) == opts[c].Query \in ListQueries

\* Page, PerPage and Category of the parameters of the list operation
PageOf(c) == opts[c].Query.target.fields[1].value.fields[1].value.i
PerPageOf(c) == opts[c].Query.target.fields[1].value.fields[2].value.i
CategoryOf(c) == opts[c].Query.target.fields[5].value.items

\* the query string of the request of call c has the parameter name=value,
\* escaped, between its start, its end or an "&" on either side
Carries(c, name, value) ==
    LET raw == request[c].query
        param == QueryEscape(Chars(name)) \o <<"=">> \o QueryEscape(value)
    IN  \E i \in 1..Len(raw) :
            /\ i + Len(param) - 1 <= Len(raw)
            /\ SubSeq(raw, i, i + Len(param) - 1) = param
            /\ i = 1 \/ raw[i - 1] = "&"
            /\ i + Len(param) - 1 = Len(raw) \/ raw[i + Len(param)] = "&"

\* C29: the request a list operation hands to the transport carries page=p
\* when Page = p > 0 and per_page=n when PerPage = n > 0, next to the
\* parameters of the other fields that are set.
C29_ListParamsTransmitted ==
    \A c \in calls :
        IsListCall(c) /\ exchanges[c] >= 1 =>
            /\ PageOf(c) > 0 => Carries(c, "page", FormatInt(PageOf(c)))
            /\ PerPageOf(c) > 0 => Carries(c, "per_page", FormatInt(PerPageOf(c)))
            /\ CategoryOf(c) # <<>> =>
                  Carries(c, "category", <<"1", "5", ",", "2", "3">>)

---------------------------------------------------------------------------
(* C30 *)

\* a step of call c other than the cancellation of its context
Progress(c) ==
    \/ Call(c)
    \/ StartAttempt(c)
    \/ Authenticate(c)
    \/ Refresh(c)
    \/ WriteToken(c)
    \/ WriteExpiry(c)
    \/ IsValidToken(c)
    \/ IsValidZero(c)
    \/ IsValidBefore(c)
    \/ SetHeader(c)
    \/ Do(c)
    \/ WaitElapsed(c)
    \/ WaitCancelled(c)

\* The calls of Spec when the goroutine of a call is always scheduled again,
\* every exchange and every refresh function returns and every timer fires.
FairSpec == Spec /\ \A c \in {1} : WF_vars(Progress(c))

\* every call returns
Terminates == \A c \in {1} : <>Returned(c)

\* C30: a call that has returned has made at least one more attempt than it
\* has completed backoff waits.
C30_WaitsBelowAttempts ==
    \A c \in calls : Returned(c) => Waits(c) <= Attempts(c) - 1

====
